---- MODULE Spec2Model ----
(***************************************************************************)
(* Model of the q-distributed-database client SDK (rust/client-sdk).      *)
(*                                                                         *)
(*   Spec      Transaction (transaction.rs) on its dedicated connection:   *)
(*             execute / query / commit / rollback / drop, with the        *)
(*             request/response exchange of Connection::send_request and   *)
(*             a server that may answer, answer late, or never answer.     *)
(*   PoolSpec  ConnectionPool (connection.rs): concurrent get_connection / *)
(*             return_connection over the available deque and the atomic   *)
(*             total_connections counter.                                  *)
(*   RetrySpec ConnectionManager::execute_with_retry (connection.rs) under *)
(*             every retry configuration and every sequence of results of  *)
(*             the operation.                                              *)
(*   AuthSpec  AuthenticationManager (auth.rs) used by concurrent tasks:   *)
(*             authenticate / get_valid_token / refresh_token / logout.    *)
(*   ConnSpec  one task with an AuthenticationManager and a Connection:    *)
(*             Connection::authenticate, get_valid_token and               *)
(*             send_authenticated_request as time passes.                  *)
(*   CodecSpec MessageCodec (protocol.rs): a message is built, encoded or  *)
(*             framed, possibly changed in one byte, and decoded.          *)
(*   ProtoSpec ProtocolNegotiation::select_protocol (protocol.rs) on every *)
(*             pair of protocol lists.                                     *)
(*   FeatureSpec Connection::negotiate_features (connection.rs) on a       *)
(*             connection made by connect_with_config.                     *)
(*   HealthSpec ConnectionManager::mark_node_healthy / mark_node_unhealthy *)
(*             (connection.rs) in every order on every node.               *)
(*   DisconnectSpec Client::disconnect (client.rs) on a connected client,  *)
(*             while other holders of the pool go on using it.             *)
(*   WaitSpec  the operations that wait on the network (send_request,      *)
(*             negotiate_features, the health probe, ResultStream::next)   *)
(*             against a server that may neither read nor answer, with     *)
(*             the fairness of the runtime: timers fire, ready writes      *)
(*             complete.                                                   *)
(*   BeginSpec DataClient::begin_transaction (data_client.rs) called by    *)
(*             concurrent tasks as the wall clock advances.                *)
(*   DataSpec  the operations of DataClient (data_client.rs) on the pool:  *)
(*             every exit path of execute_with_params, query_with_params,  *)
(*             prepare and begin_transaction.                              *)
(*   ReaderSpec MessageCodec::read_message (protocol.rs) on a reader: what *)
(*             it takes from the reader and what it allocates.             *)
(*   SeqSpec   the sequence numbers written on a connection by             *)
(*             send_request, negotiate_features, query_stream and the      *)
(*             health ping.                                                *)
(*   ProbeSpec ConnectionManager::health_check_all_nodes (connection.rs)   *)
(*             run after run, next to mark_node_healthy / _unhealthy.      *)
(*   ExchangeSpec Connection::send_request call after call on one          *)
(*             connection, with replies that may arrive late.              *)
(*   LogoutSpec the tasks of AuthSpec, with the history of logout kept.    *)
(***************************************************************************)
EXTENDS Integers, Sequences, FiniteSets, TLC

(***************************************************************************)
(* Bounds of the model.                                                    *)
(***************************************************************************)
\* number of calls made on one Transaction object
MaxCalls == 2

\* server error messages carried by error responses
Msgs == {"constraint violation", "deadlock detected"}

\* transaction identifiers a transaction may have been created with
\* (a TransactionId is a u64 taken from the clock, data_client.rs:508)
TxnIds == {7}

\* PoolConfig.max_connections, idle_timeout_ms, max_lifetime_ms (types.rs:338-349)
max_connections == 1

idle_timeout_ms == 1

max_lifetime_ms == 2

\* number of configured hosts (ConnectionPool.hosts)
NumHosts == 2

\* number of tasks using the pool concurrently
NumCallers == 2

\* the clock runs from 0 to MaxTime milliseconds
MaxTime == 3

\* number of connections dialed successfully over the life of the pool
MaxDialed == 4

\* RetryConfig.max_retries ranges over 0..MaxRetries
MaxRetries == 2

\* RetryConfig.initial_backoff_ms and max_backoff_ms range over 1..MaxBackoff
MaxBackoff == 3

\* number of tasks sharing one AuthenticationManager
NumTasks == 2

\* token_ttl ranges over 1..MaxTtl
MaxTtl == 2

\* the clock of the authentication manager runs from 0 to MaxClock
MaxClock == 3

\* longest list of protocols offered by a side
MaxProtocols == 3

\* longest list of features offered by a side
MaxFeatures == 2

\* number of nodes whose health is tracked
NumNodes == 2

\* number of health observations made of one node
MaxObservations == 4

\* timeout_ms ranges over 1..MaxTimeoutMs
MaxTimeoutMs == 2

\* the wall clock of begin_transaction runs from 1 to MaxNow milliseconds
MaxNow == 3

\* number of transactions begun on one client
MaxBegun == 3

\* the number of messages written on one connection
MaxSent == 4

\* the number of send_request calls made on one connection
MaxRequests == 4

(***************************************************************************)
(* State.                                                                  *)
(***************************************************************************)
VARIABLES
    \* ---- Transaction (transaction.rs:116-125) and its connection ----
    transaction_id,   \* Transaction.transaction_id
    is_committed,     \* Transaction.is_committed
    alive,            \* FALSE once the Transaction object has been dropped
    wire,             \* requests written on the transaction's connection
    stream,           \* server replies on the socket not yet read: the
                      \* kind of request each one answers, oldest first
    rollback_attempts,\* number of Rollback exchanges started so far
    accepted,         \* transaction responses the client acted upon
    rollback_reply,   \* how the last Rollback exchange ended
    ret,              \* what the last call on the transaction returned
    calls,            \* number of calls made so far
    dropped,          \* how the Transaction object was dropped
    \* ---- ConnectionPool (connection.rs:463-474) and its callers ----
    available,        \* ConnectionPool.available, front first
    total_connections,\* ConnectionPool.total_connections
    now,              \* chrono::Utc::now().timestamp_millis()
    pc,               \* where each caller is: idle, creating (between the
                      \* capacity check and the dial), holding a connection
    held,             \* the PooledConnection each caller holds
    pool_ret,         \* what each caller's last get_connection returned
    dialed,           \* number of connections dialed successfully so far
    \* ---- one call of execute_with_retry (connection.rs:685-712) ----
    retry_config,     \* ConnectionConfig.retry_config
    retries,          \* the local retries
    delay,            \* the local delay, in milliseconds
    attempts,         \* number of times the operation was invoked
    sleeps,           \* the delays slept so far, in order
    errs,             \* the errors the operation returned so far, in order
    retry_result,     \* what execute_with_retry returned
    retry_pc,         \* "running" while in the loop, "done" once returned
    \* ---- AuthenticationManager (auth.rs:160-167), its tasks, a Connection ----
    credentials,      \* AuthenticationManager.credentials
    token_ttl,        \* AuthenticationManager.token_ttl
    token,            \* AuthenticationManager.token: << >> is None, << t >> is Some(t)
    clock,            \* Utc::now()
    auth_pc,          \* per task: the call in progress and where it stands
    auth_tmp,         \* per task: the token value the call carries
    auth_ret,         \* what the last call that returned gave
    conn_token,       \* Connection.auth_token
    conn_ret,         \* how the last send_authenticated_request ended
    \* ---- MessageCodec (protocol.rs:130-133) at work on one message ----
    max_message_size, \* MessageCodec.max_message_size
    message,          \* the Message handed to the codec
    data,             \* the bytes produced by the encoder, as they reach the decoder
    codec_ret,        \* what the last codec operation returned
    codec_pc,         \* built, encoded, framed, corrupted, decoded,
                      \* decoded_corrupted, read, failed
    \* ---- ProtocolNegotiation::select_protocol (protocol.rs:312-328) ----
    client_protocols, \* the argument client_protocols
    server_protocols, \* the argument server_protocols
    selected,         \* the Option returned: << >> is None, << p >> is Some(p)
    proto_pc,         \* "idle" before the call, "selected" after it
    \* ---- Connection (connection.rs:117-133) negotiating features ----
    config_compression_enabled, \* ConnectionConfig.compression_enabled
    compression_enabled,        \* Connection.codec.compression_enabled
    negotiated_features,        \* Connection.negotiated_features
    client_features,  \* the argument of the last negotiate_features
    server_features,  \* the feature list of the last reply of the server
    feat_ret,         \* what the last negotiate_features returned
    \* ---- ConnectionManager.node_health (connection.rs:575-576) ----
    node_health,      \* the map NodeId -> NodeHealth, a function on the tracked ids
    observations,     \* per node: the observations reported so far, in order
                      \* (TRUE healthy, FALSE unhealthy)
    \* ---- Client::disconnect (client.rs:288-305) ----
    disc_pc,          \* where disconnect stands: idle, creating, logout,
                      \* clearing, return, closing, done
    disc_ret,         \* what disconnect returned
    disc_closed,      \* TRUE once ConnectionManager::disconnect has run
    \* ---- one operation waiting on the network, and its peer ----
    wait_op,          \* the operation: send_request, negotiate_features,
                      \* health_check, stream_next
    wait_timeout_ms,  \* timeout_ms of the call (config.timeout_ms for the probe)
    wait_pc,          \* start, connecting, writing, reading, done
    wait_timer,       \* milliseconds left on the tokio timeout around the
                      \* current wait; NoTimer when the wait has none
    wait_ret,         \* what the operation returned
    host_reachable,   \* the host answers a dial
    server_reads,     \* the server reads what the client writes
    server_answers,   \* the server sends a reply
    frame_fits,       \* the frame fits into the free socket buffer
    \* ---- DataClient::begin_transaction (data_client.rs:498-558) ----
    begin_now,        \* chrono::Utc::now().timestamp_millis(), counted from
                      \* the time the client was created
    begin_pc,         \* per task: "idle", or "sent" once Begin was written
    begin_id,         \* per task: the local transaction_id
    transactions,     \* the Transaction objects created, in order
    begin_ret,        \* what the last begin_transaction that returned gave
    \* ---- the operations of DataClient (data_client.rs:254-558) ----
    data_op,          \* per caller: the operation in progress, "none" when
                      \* none is, "transaction" while a Transaction made by
                      \* begin_transaction owns the connection
    data_ret,         \* per caller: how its last operation ended
    \* ---- the reader of MessageCodec::read_message (protocol.rs:215-249) ----
    read_allocated,   \* the length of the buffer the last read_message
                      \* allocated for the body, 0 when it allocated none
    \* ---- the messages written on a connection (connection.rs:229-276) ----
    seq_counter,      \* Connection.sequence_number of a pooled connection
    seq_sent,         \* the messages written on that connection so far, in
                      \* order: the sequence number and the sending path
    probe_sent,       \* the messages written on the connection that the last
                      \* health check opened
    \* ---- send_request calls on one connection and the server's replies ----
    exch_pc,          \* "idle", or "waiting" while a call waits for a frame
    exch_sent,        \* the number of requests written on the connection
    unanswered,       \* the requests the server has not answered yet, in
                      \* the order they were written (their numbers)
    unread,           \* the replies on the socket that no call has read, in
                      \* order of arrival: the number of the request each
                      \* is the reply to
    exch_ret,         \* what the last send_request that returned gave
    \* ---- the history of logout on one AuthenticationManager ----
    logout_stands     \* TRUE from the return of a logout with Ok until the
                      \* next authenticate, get_valid_token or refresh_token
                      \* call starts

txnVars == << transaction_id, is_committed, alive, wire, stream,
              rollback_attempts, accepted, rollback_reply, ret, calls, dropped >>

poolVars == << available, total_connections, now, pc, held, pool_ret, dialed >>

retryVars == << retry_config, retries, delay, attempts, sleeps, errs,
                retry_result, retry_pc >>

authVars == << credentials, token_ttl, token, clock, auth_pc, auth_tmp,
               auth_ret, conn_token, conn_ret >>

codecVars == << max_message_size, message, data, codec_ret, codec_pc >>

protoVars == << client_protocols, server_protocols, selected, proto_pc >>

featVars == << config_compression_enabled, compression_enabled,
               negotiated_features, client_features, server_features, feat_ret >>

healthVars == << node_health, observations >>

discVars == << disc_pc, disc_ret, disc_closed >>

waitVars == << wait_op, wait_timeout_ms, wait_pc, wait_timer, wait_ret,
               host_reachable, server_reads, server_answers, frame_fits >>

beginVars == << begin_now, begin_pc, begin_id, transactions, begin_ret >>

dataVars == << data_op, data_ret >>

readVars == << read_allocated >>

seqVars == << seq_counter, seq_sent, probe_sent >>

exchVars == << exch_pc, exch_sent, unanswered, unread, exch_ret >>

raceVars == << logout_stands >>

extVars == << dataVars, readVars, seqVars, exchVars, raceVars >>

sdkVars == << protoVars, featVars, healthVars, discVars, waitVars, beginVars,
              extVars >>

vars == << txnVars, poolVars, retryVars, authVars, codecVars, sdkVars >>

(***************************************************************************)
(* DatabaseError values (error.rs), as far as the transaction and the      *)
(* connection produce them.                                                *)
(***************************************************************************)
OkRes == [kind |-> "Ok", details |-> "", txn |-> 0]

Err(kind, details) == [kind |-> kind, details |-> details, txn |-> 0]

TransactionAborted(id, reason) ==
    [kind |-> "TransactionAborted", details |-> reason, txn |-> id]

AlreadyResolved == "Transaction has already been committed or rolled back"

IsErr(r) == r.kind # "Ok"

(***************************************************************************)
(* Payloads.  A payload is the bincode serialisation of one of the         *)
(* response types; t names the type that was serialised.                   *)
(*   ExecuteResponse / QueryResponse: v = "None" | "Some" is the error     *)
(*   option, m the error string.                                           *)
(*   TransactionResponse: v is the variant, m the message of Error.        *)
(***************************************************************************)
DataVals ==
    {[v |-> "None", m |-> ""]} \cup {[v |-> "Some", m |-> x] : x \in Msgs}

TxnVals ==
    {[v |-> x, m |-> ""] : x \in {"BeginSuccess", "CommitSuccess", "RollbackSuccess"}}
    \cup {[v |-> "Error", m |-> x] : x \in Msgs}

ValsOf(type) == IF type = "Txn" THEN TxnVals ELSE DataVals

Garbage == [t |-> "Garbage", v |-> "", m |-> ""]

PayloadsOf(type) == {[t |-> type, v |-> x.v, m |-> x.m] : x \in ValsOf(type)}

\* the type of response the server sends for a request of a given kind
ResponseType(reqKind) ==
    CASE reqKind = "Execute" -> "Exec"
      [] reqKind = "Query"   -> "Query"
      [] OTHER               -> "Txn"

\* what a server may put in the reply to a request: a response of the
\* matching type (any variant), or bytes that decode to nothing
RepliesTo(reqKind) == PayloadsOf(ResponseType(reqKind)) \cup {Garbage}

DecodeError == [ok |-> FALSE, v |-> "", m |-> ""]

\* bincode::deserialize::<T>(payload): the value that was serialised when
\* the payload holds a T; an error for garbage; for the bytes of another
\* response type the result depends on the bytes (bincode reads a variant
\* index or a length from whatever is there), so any T or an error.
Deserialize(type, payload) ==
    IF payload.t = type
    THEN {[ok |-> TRUE, v |-> payload.v, m |-> payload.m]}
    ELSE IF payload.t = "Garbage"
    THEN {DecodeError}
    ELSE {DecodeError} \cup {[ok |-> TRUE, v |-> x.v, m |-> x.m] : x \in ValsOf(type)}

(***************************************************************************)
(* Connection::send_request (connection.rs:245-276) on the transaction's   *)
(* connection: every way the exchange of req can go.  t carries the        *)
(* connection's wire log and the replies still unread on the socket; the   *)
(* frame receive_message returns is the oldest unread one.                 *)
(*   - write_message fails: nothing reaches the server (NetworkError)      *)
(*   - the request is written; the server answers it at some time, or      *)
(*     never does; then                                                    *)
(*       no frame arrives within timeout_ms (TimeoutError), or             *)
(*       reading the frame fails (NetworkError), or                        *)
(*       a frame arrives and fails checksum verification, or               *)
(*       a frame arrives and is returned.                                  *)
(***************************************************************************)
send_request(t, req) ==
    {[t |-> t, res |-> Err("NetworkError", "Failed to write message"),
      payload |-> Garbage]}
    \cup UNION {
        LET s1 == IF answered THEN Append(t.stream, req.kind) ELSE t.stream
            sent == [t EXCEPT !.wire = Append(@, req), !.stream = s1]
            read == [sent EXCEPT !.stream = Tail(s1)]
        IN {[t |-> sent, res |-> Err("TimeoutError", "send_request"),
             payload |-> Garbage],
            [t |-> sent, res |-> Err("NetworkError", "Failed to read message"),
             payload |-> Garbage]}
           \cup (IF s1 = << >> THEN {}
                 ELSE {[t |-> read, res |-> Err("ChecksumMismatch", ""),
                        payload |-> Garbage]}
                      \cup {[t |-> read, res |-> OkRes, payload |-> p]
                            : p \in RepliesTo(Head(s1))})
        : answered \in BOOLEAN}

(***************************************************************************)
(* Transaction::check_active (transaction.rs:148-156)                      *)
(***************************************************************************)
\* variant: the check is left out
check_active_skipped(committed) == OkRes

check_active(committed) ==
    IF committed THEN Err("InternalError", AlreadyResolved) ELSE OkRes

(***************************************************************************)
(* Transaction::rollback_internal (transaction.rs:349-397): the possible   *)
(* results [t, res] of one call.  rollback_exchange is the part after the  *)
(* early return (transaction.rs:354-396); t.rollback_reply records how the *)
(* exchange ended: the transport error, "undecodable", or the variant of   *)
(* the TransactionResponse that was read.                                  *)
(***************************************************************************)
rollback_exchange(t, id) ==
    LET Matched(x, d) ==
            IF ~d.ok
            THEN [t |-> [x.t EXCEPT !.rollback_reply = "undecodable"],
                  res |-> Err("SerializationError",
                              "Failed to deserialize transaction response")]
            ELSE CASE d.v = "RollbackSuccess" ->
                        [t |-> [x.t EXCEPT !.is_committed = TRUE,
                                           !.rollback_reply = d.v,
                                           !.accepted = @ \cup
                                               {[resp |-> "RollbackSuccess",
                                                 at |-> Len(x.t.wire)]}],
                         res |-> OkRes]
                   [] d.v = "Error" ->
                        [t |-> [x.t EXCEPT !.rollback_reply = d.v],
                         res |-> TransactionAborted(id, d.m)]
                   [] OTHER ->
                        [t |-> [x.t EXCEPT !.rollback_reply = d.v],
                         res |-> Err("InternalError",
                                     "Unexpected response to rollback")]
        Replied(x) ==
            IF IsErr(x.res)
            THEN {[t |-> [x.t EXCEPT !.rollback_reply = x.res.kind], res |-> x.res]}
            ELSE {Matched(x, d) : d \in Deserialize("Txn", x.payload)}
    IN UNION {Replied(x) :
              x \in send_request([t EXCEPT !.rollback_attempts = @ + 1],
                                 [kind |-> "Rollback", txn |-> id])}

\* variant: no early return for a resolved transaction
rollback_internal_resend(t, id) == rollback_exchange(t, id)

rollback_internal(t, id) ==
    IF t.is_committed
    THEN {[t |-> t, res |-> OkRes]}
    ELSE rollback_exchange(t, id)

(***************************************************************************)
(* The failure branches of execute_with_params, query_with_params and      *)
(* commit (transaction.rs:188-193, 205-213, 317-325, 334-339):             *)
(*     let _ = self.rollback_internal().await;  return Err(e)              *)
(* t is the transaction after the failed exchange, e the error the call    *)
(* returns, orig the error of the failed exchange, path the branch.        *)
(***************************************************************************)
\* variant: self.rollback_internal().await?  (the rollback's error wins)
rollback_then_fail_propagating(t, id, e, orig, path) ==
    {[t |-> rb.t, res |-> IF IsErr(rb.res) THEN rb.res ELSE e,
      path |-> path, orig |-> orig]
     : rb \in rollback_internal(t, id)}

\* variant: the error is returned without the rollback
rollback_then_fail_without_rollback(t, id, e, orig, path) ==
    {[t |-> t, res |-> e, path |-> path, orig |-> orig]}

rollback_then_fail(t, id, e, orig, path) ==
    {[t |-> rb.t, res |-> e, path |-> path, orig |-> orig]
     : rb \in rollback_internal(t, id)}

(***************************************************************************)
(* The body shared by Transaction::execute_with_params and                 *)
(* Transaction::query_with_params (the two differ in the request and the   *)
(* response type only): the possible results of one call.  path names the  *)
(* branch the call returned from and orig the error of the failed          *)
(* exchange (the transport error, or the error the server reported).       *)
(***************************************************************************)
data_operation(t, id, reqKind) ==
    LET active == check_active(t.is_committed)
        Matched(x, d) ==
            IF ~d.ok
            THEN {[t |-> x.t,
                   res |-> Err("SerializationError", "Failed to deserialize response"),
                   path |-> "undecodable", orig |-> OkRes]}
            ELSE IF d.v = "Some"
            THEN rollback_then_fail(x.t, id, Err("InternalError", d.m),
                                    Err("InternalError", d.m), "server_error")
            ELSE {[t |-> x.t, res |-> OkRes, path |-> "success", orig |-> OkRes]}
        Replied(x) ==
            IF IsErr(x.res)
            THEN rollback_then_fail(x.t, id, x.res, x.res, "transport")
            ELSE UNION {Matched(x, d)
                        : d \in Deserialize(ResponseType(reqKind), x.payload)}
    IN IF IsErr(active)
       THEN {[t |-> t, res |-> active, path |-> "not_active", orig |-> OkRes]}
       ELSE UNION {Replied(x) : x \in send_request(t, [kind |-> reqKind, txn |-> id])}

\* Transaction::execute_with_params (transaction.rs:164-219)
execute_with_params(t, id) == data_operation(t, id, "Execute")

\* Transaction::query_with_params (transaction.rs:227-279)
query_with_params(t, id) == data_operation(t, id, "Query")

(***************************************************************************)
(* Transaction::commit (transaction.rs:282-341): the possible results.     *)
(***************************************************************************)
commit(t, id) ==
    LET active == check_active(t.is_committed)
        Matched(x, d) ==
            IF ~d.ok
            THEN {[t |-> x.t,
                   res |-> Err("SerializationError",
                               "Failed to deserialize transaction response"),
                   path |-> "undecodable", orig |-> OkRes]}
            ELSE CASE d.v = "CommitSuccess" ->
                        {[t |-> [x.t EXCEPT !.is_committed = TRUE,
                                            !.accepted = @ \cup
                                                {[resp |-> "CommitSuccess",
                                                  at |-> Len(x.t.wire)]}],
                          res |-> OkRes, path |-> "success", orig |-> OkRes]}
                   [] d.v = "Error" ->
                        rollback_then_fail(x.t, id, TransactionAborted(id, d.m),
                                           Err("InternalError", d.m), "server_error")
                   [] OTHER ->
                        {[t |-> x.t,
                          res |-> Err("InternalError", "Unexpected response to commit"),
                          path |-> "unexpected", orig |-> OkRes]}
        Replied(x) ==
            IF IsErr(x.res)
            THEN rollback_then_fail(x.t, id, x.res, x.res, "transport")
            ELSE UNION {Matched(x, d) : d \in Deserialize("Txn", x.payload)}
    IN IF IsErr(active)
       THEN {[t |-> t, res |-> active, path |-> "not_active", orig |-> OkRes]}
       ELSE UNION {Replied(x) : x \in send_request(t, [kind |-> "Commit", txn |-> id])}

(***************************************************************************)
(* Transaction::rollback (transaction.rs:344-346)                          *)
(***************************************************************************)
rollback(t, id) ==
    {[t |-> r.t, res |-> r.res,
      path |-> IF t.is_committed THEN "not_active" ELSE "rollback", orig |-> OkRes]
     : r \in rollback_internal(t, id)}

(***************************************************************************)
(* impl Drop for Transaction (transaction.rs:400-416): an unresolved       *)
(* transaction is reported on stderr; nothing is written to the            *)
(* connection and no field changes.                                        *)
(***************************************************************************)
drop(t) == [t |-> t, warned |-> ~t.is_committed]

(***************************************************************************)
(* PooledConnection (connection.rs:414-460).  id names the connection      *)
(* (the socket); created_at and last_used are the fields of the struct.    *)
(***************************************************************************)
Callers == 1..NumCallers

NoConn == [id |-> 0, node_id |-> 0, created_at |-> 0, last_used |-> 0]

\* PooledConnection::new (connection.rs:425-432)
new_pooled(id, node_id, time) ==
    [id |-> id, node_id |-> node_id, created_at |-> time, last_used |-> time]

\* PooledConnection::touch (connection.rs:435-437)
touch(conn, time) == [conn EXCEPT !.last_used = time]

\* PooledConnection::is_idle (connection.rs:440-443)
is_idle(conn, time, idle_timeout) == (time - conn.last_used) > idle_timeout

\* PooledConnection::is_expired (connection.rs:446-449)
is_expired(conn, time, max_lifetime) == (time - conn.created_at) > max_lifetime

\* a purge that looks at the lifetime only
retain_live_ignoring_idle(conns, time) ==
    SelectSeq(conns, LAMBDA conn : ~is_expired(conn, time, max_lifetime_ms))

\* available.retain(..) in get_connection (connection.rs:494-497)
retain_live(conns, time) ==
    SelectSeq(conns, LAMBDA conn : ~is_expired(conn, time, max_lifetime_ms)
                                   /\ ~is_idle(conn, time, idle_timeout_ms))

\* total_connections is an AtomicU32 (connection.rs:469) and fetch_add and
\* fetch_sub wrap.  The counter is kept as the representative of its value
\* modulo 2^32 that is nearest to zero: a value below zero stands for the
\* wrapped value 2^32 + total.
wrapped(total) == total < 0

\* the capacity check of get_connection (connection.rs:505-506), an
\* unsigned comparison: a wrapped counter is above every limit
pool_exhausted(total) == wrapped(total) \/ total >= max_connections

\* what dialing one host can give (Connection::connect, connection.rs:137-173)
DialResults == {"Ok", "ConnectionTimeout", "ConnectionRefused", "NetworkError"}

\* create_connection tries the hosts in list order and stops at the first
\* that connects (connection.rs:532-544); 0 when none does
first_connected(dial) ==
    IF \E h \in 1..NumHosts : dial[h] = "Ok"
    THEN CHOOSE h \in 1..NumHosts :
             dial[h] = "Ok" /\ \A g \in 1..(h - 1) : dial[g] # "Ok"
    ELSE 0

\* a get_connection that hands out the front connection and leaves it
\* in the available set
GetConnectionPeeking(c) ==
    /\ pc[c] = "idle"
    /\ LET live == retain_live(available, now) IN
       IF live # << >>
       THEN /\ available' = live
            /\ held' = [held EXCEPT ![c] = touch(Head(live), now)]
            /\ pc' = [pc EXCEPT ![c] = "holding"]
            /\ pool_ret' = [pool_ret EXCEPT ![c] = "Ok"]
       ELSE /\ available' = live
            /\ held' = held
            /\ IF pool_exhausted(total_connections)
               THEN /\ pc' = pc
                    /\ pool_ret' = [pool_ret EXCEPT ![c] = "PoolExhausted"]
               ELSE /\ pc' = [pc EXCEPT ![c] = "creating"]
                    /\ pool_ret' = [pool_ret EXCEPT ![c] = "pending"]
    /\ UNCHANGED << total_connections, now, dialed >>

(***************************************************************************)
(* ConnectionPool::get_connection up to the release of the lock            *)
(* (connection.rs:489-516): purge, reuse, capacity check.                  *)
(***************************************************************************)
GetConnection(c) ==
    /\ pc[c] = "idle"
    /\ LET live == retain_live(available, now) IN
       IF live # << >>
       THEN /\ available' = Tail(live)
            /\ held' = [held EXCEPT ![c] = touch(Head(live), now)]
            /\ pc' = [pc EXCEPT ![c] = "holding"]
            /\ pool_ret' = [pool_ret EXCEPT ![c] = "Ok"]
       ELSE /\ available' = live
            /\ held' = held
            /\ IF pool_exhausted(total_connections)
               THEN /\ pc' = pc
                    /\ pool_ret' = [pool_ret EXCEPT ![c] = "PoolExhausted"]
               ELSE /\ pc' = [pc EXCEPT ![c] = "creating"]
                    /\ pool_ret' = [pool_ret EXCEPT ![c] = "pending"]
    /\ UNCHANGED << total_connections, now, dialed >>

(***************************************************************************)
(* ConnectionPool::create_connection (connection.rs:523-550), which        *)
(* get_connection calls after it released the lock (connection.rs:516-519) *)
(***************************************************************************)
CreateConnection(c) ==
    /\ pc[c] = "creating"
    /\ dialed < MaxDialed
    /\ \E dial \in [1..NumHosts -> DialResults] :
         LET h == first_connected(dial) IN
         IF NumHosts = 0
         THEN /\ pool_ret' = [pool_ret EXCEPT ![c] = "InternalError"]
              /\ pc' = [pc EXCEPT ![c] = "idle"]
              /\ UNCHANGED << total_connections, held, dialed >>
         ELSE IF h # 0
         THEN /\ total_connections' = total_connections + 1
              /\ held' = [held EXCEPT ![c] = new_pooled(dialed + 1, h, now)]
              /\ dialed' = dialed + 1
              /\ pc' = [pc EXCEPT ![c] = "holding"]
              /\ pool_ret' = [pool_ret EXCEPT ![c] = "Ok"]
         ELSE /\ pool_ret' = [pool_ret EXCEPT ![c] = dial[NumHosts]]
              /\ pc' = [pc EXCEPT ![c] = "idle"]
              /\ UNCHANGED << total_connections, held, dialed >>
    /\ UNCHANGED << available, now >>

\* a return_connection that discards without touching the counter
ReturnConnectionUncounted(c) ==
    /\ pc[c] = "holding"
    /\ IF is_expired(held[c], now, max_lifetime_ms)
          \/ is_idle(held[c], now, idle_timeout_ms)
       THEN /\ total_connections' = total_connections
            /\ available' = available
       ELSE /\ available' = Append(available, held[c])
            /\ total_connections' = total_connections
    /\ held' = [held EXCEPT ![c] = NoConn]
    /\ pc' = [pc EXCEPT ![c] = "idle"]
    /\ UNCHANGED << now, pool_ret, dialed >>

(***************************************************************************)
(* ConnectionPool::return_connection (connection.rs:553-563)               *)
(***************************************************************************)
ReturnConnection(c) ==
    /\ pc[c] = "holding"
    /\ IF is_expired(held[c], now, max_lifetime_ms)
          \/ is_idle(held[c], now, idle_timeout_ms)
       THEN /\ total_connections' = total_connections - 1
            /\ available' = available
       ELSE /\ available' = Append(available, held[c])
            /\ total_connections' = total_connections
    /\ held' = [held EXCEPT ![c] = NoConn]
    /\ pc' = [pc EXCEPT ![c] = "idle"]
    /\ UNCHANGED << now, pool_ret, dialed >>

\* a millisecond passes
Tick ==
    /\ now < MaxTime
    /\ now' = now + 1
    /\ UNCHANGED << available, total_connections, pc, held, pool_ret, dialed >>

\* ConnectionPool::new (connection.rs:478-486), no caller active
PoolNew ==
    /\ available = << >>
    /\ total_connections = 0
    /\ now = 0
    /\ pc = [c \in Callers |-> "idle"]
    /\ held = [c \in Callers |-> NoConn]
    /\ pool_ret = [c \in Callers |-> "none"]
    /\ dialed = 0

(***************************************************************************)
(* DatabaseError classification (error.rs:231-249).                        *)
(***************************************************************************)
\* the error kinds an operation under execute_with_retry may fail with
\* (variants of DatabaseError, error.rs:13-220)
ErrorKinds ==
    {"ConnectionTimeout", "ConnectionRefused", "ConnectionLost",
     "AuthenticationFailed", "SyntaxError", "TransactionAborted",
     "ChecksumMismatch", "NetworkError", "TimeoutError", "InternalError"}

\* a classification under which every error is retried
is_retryable_any(kind) == TRUE

\* a classification that retries refused connections as well
is_retryable_with_refused(kind) ==
    kind \in {"ConnectionTimeout", "ConnectionRefused", "ConnectionLost",
              "NetworkError", "TimeoutError"}

\* DatabaseError::is_retryable (error.rs:231-239)
is_retryable(kind) ==
    kind \in {"ConnectionTimeout", "ConnectionLost", "NetworkError", "TimeoutError"}

\* DatabaseError::is_connection_error (error.rs:242-249)
is_connection_error(kind) ==
    kind \in {"ConnectionTimeout", "ConnectionRefused", "ConnectionLost"}

(***************************************************************************)
(* RetryConfig (types.rs:366-375) and ConnectionManager::execute_with_retry *)
(* (connection.rs:685-712).                                                *)
(***************************************************************************)
\* values of backoff_multiplier (an f64), as fractions: 1.0, 1.5 and 2.0
Multipliers ==
    {[num |-> 1, den |-> 1], [num |-> 3, den |-> 2], [num |-> 2, den |-> 1]}

RetryConfigs ==
    [max_retries : 0..MaxRetries,
     initial_backoff_ms : 1..MaxBackoff,
     max_backoff_ms : 1..MaxBackoff,
     backoff_multiplier : Multipliers]

\* u64::min
Min(a, b) == IF a <= b THEN a ELSE b

\* (delay.as_millis() as f64 * backoff_multiplier) as u64, capped at
\* max_backoff_ms (connection.rs:703-704); the cast truncates
next_delay(d, cfg) ==
    Min((d * cfg.backoff_multiplier.num) \div cfg.backoff_multiplier.den,
        cfg.max_backoff_ms)

\* a budget test that allows one retry too many
retry_budget_left_inclusive(n, cfg) == n <= cfg.max_retries

\* the guard "retries < retry_config.max_retries" (connection.rs:697)
retry_budget_left(n, cfg) == n < cfg.max_retries

\* giving up with the first error the operation returned
give_up_with_first(e, log) == log[1]

\* the arm "Err(e) => return Err(e)" (connection.rs:706-709): log holds the
\* errors of all attempts, e is the error of the attempt just made
give_up(e, log) == e

\* what one invocation of the operation can return
OperationResults == {OkRes} \cup {Err(k, "") : k \in ErrorKinds}

\* one iteration of the loop of execute_with_retry (connection.rs:694-711):
\* the operation is invoked; on a retryable error with budget left the
\* loop sleeps for delay and computes the next delay
Attempt ==
    /\ retry_pc = "running"
    /\ \E r \in OperationResults :
         /\ attempts' = attempts + 1
         /\ errs' = IF IsErr(r) THEN Append(errs, r) ELSE errs
         /\ IF ~IsErr(r)
            THEN /\ retry_result' = r
                 /\ retry_pc' = "done"
                 /\ UNCHANGED << retries, delay, sleeps >>
            ELSE IF retry_budget_left(retries, retry_config) /\ is_retryable(r.kind)
            THEN /\ retries' = retries + 1
                 /\ sleeps' = Append(sleeps, delay)
                 /\ delay' = next_delay(delay, retry_config)
                 /\ UNCHANGED << retry_result, retry_pc >>
            ELSE /\ retry_result' = give_up(r, Append(errs, r))
                 /\ retry_pc' = "done"
                 /\ UNCHANGED << retries, delay, sleeps >>
    /\ UNCHANGED retry_config

\* entry of execute_with_retry (connection.rs:690-692)
RetryStart ==
    /\ retry_config \in RetryConfigs
    /\ retries = 0
    /\ delay = retry_config.initial_backoff_ms
    /\ attempts = 0
    /\ sleeps = << >>
    /\ errs = << >>
    /\ retry_result = OkRes
    /\ retry_pc = "running"

\* no call of execute_with_retry is in progress
NoRetry ==
    /\ retry_config = [max_retries |-> 0, initial_backoff_ms |-> 1,
                       max_backoff_ms |-> 1,
                       backoff_multiplier |-> [num |-> 1, den |-> 1]]
    /\ retries = 0
    /\ delay = 1
    /\ attempts = 0
    /\ sleeps = << >>
    /\ errs = << >>
    /\ retry_result = OkRes
    /\ retry_pc = "done"

(***************************************************************************)
(* Credentials and AuthToken (auth.rs:29-149).  Of a credential only the   *)
(* presence of each authentication method matters; the signature of a      *)
(* token is the same 32 zero bytes in every token and is left out.         *)
(***************************************************************************)
Tasks == 1..NumTasks

\* Credentials::new, with_username (auth.rs:42-60)
CredentialsSet ==
    {[username |-> "admin", password |-> TRUE, certificate |-> FALSE, token |-> FALSE],
     [username |-> "admin", password |-> FALSE, certificate |-> FALSE, token |-> FALSE],
     [username |-> "", password |-> TRUE, certificate |-> FALSE, token |-> FALSE]}

\* Credentials::validate (auth.rs:81-95)
validate(creds) ==
    IF creds.username = ""
    THEN Err("AuthenticationFailed", "Username is required")
    ELSE IF ~creds.password /\ ~creds.certificate /\ ~creds.token
    THEN Err("AuthenticationFailed", "At least one authentication method is required")
    ELSE OkRes

\* AuthToken::new (auth.rs:115-127) with expiration Utc::now() + token_ttl
new_token(user_id, roles, time, ttl) ==
    [user_id |-> user_id, roles |-> roles, expiration |-> time + ttl]

\* AuthToken::is_expired (auth.rs:130-132)
token_is_expired(tok, time) == time > tok.expiration

\* the identity and roles a refresh carries from the read to the build
Carried(user_id, roles) == [user_id |-> user_id, roles |-> roles, expiration |-> 0]

NoCarried == Carried(0, {})

AuthIdle == [op |-> "none", at |-> "idle"]

\* a call of task c returned
AuthReturned(c, op, res, tok, cached) ==
    /\ auth_ret' = [op |-> op, res |-> res, token |-> tok, cached |-> cached]
    /\ auth_pc' = [auth_pc EXCEPT ![c] = AuthIdle]
    /\ auth_tmp' = [auth_tmp EXCEPT ![c] = NoCarried]

\* authenticate() up to the point where it waits for the write lock
\* (auth.rs:183-195): validate the credentials, build the token
AuthBuild(c, op) ==
    LET v == validate(credentials) IN
    IF IsErr(v)
    THEN AuthReturned(c, op, v, << >>, FALSE)
    ELSE /\ auth_tmp' = [auth_tmp EXCEPT ![c] = new_token(1, {"User"}, clock, token_ttl)]
         /\ auth_pc' = [auth_pc EXCEPT ![c] = [op |-> op, at |-> "store"]]
         /\ UNCHANGED auth_ret

\* manager.authenticate() is called (auth.rs:183)
Authenticate(c) ==
    /\ auth_pc[c] = AuthIdle
    /\ AuthBuild(c, "authenticate")
    /\ UNCHANGED << credentials, token_ttl, token, clock, conn_token, conn_ret >>

\* connection.authenticate(&manager) is called (connection.rs:279-283); the
\* connection is borrowed mutably, so one such call runs at a time
ConnectionAuthenticate(c) ==
    /\ auth_pc[c] = AuthIdle
    /\ \A d \in Tasks : auth_pc[d].op # "connection_authenticate"
    /\ AuthBuild(c, "connection_authenticate")
    /\ UNCHANGED << credentials, token_ttl, token, clock, conn_token, conn_ret >>

\* get_valid_token under the read lock (auth.rs:204-213)
GetValidToken(c) ==
    /\ auth_pc[c] = AuthIdle
    /\ IF token # << >> /\ ~token_is_expired(token[1], clock)
       THEN AuthReturned(c, "get_valid_token", OkRes, token, TRUE)
       ELSE /\ auth_pc' = [auth_pc EXCEPT ![c] =
                              [op |-> "get_valid_token", at |-> "authenticate"]]
            /\ UNCHANGED << auth_tmp, auth_ret >>
    /\ UNCHANGED << credentials, token_ttl, token, clock, conn_token, conn_ret >>

\* refresh_token under the read lock (auth.rs:222-241)
RefreshToken(c) ==
    /\ auth_pc[c] = AuthIdle
    /\ IF token = << >>
       THEN AuthReturned(c, "refresh_token",
                         Err("AuthenticationFailed", "No token to refresh"),
                         << >>, FALSE)
       ELSE IF token_is_expired(token[1], clock)
       THEN /\ auth_pc' = [auth_pc EXCEPT ![c] =
                              [op |-> "refresh_token", at |-> "authenticate"]]
            /\ UNCHANGED << auth_tmp, auth_ret >>
       ELSE /\ auth_pc' = [auth_pc EXCEPT ![c] =
                              [op |-> "refresh_token", at |-> "build"]]
            /\ auth_tmp' = [auth_tmp EXCEPT ![c] =
                              Carried(token[1].user_id, token[1].roles)]
            /\ UNCHANGED auth_ret
    /\ UNCHANGED << credentials, token_ttl, token, clock, conn_token, conn_ret >>

\* the call of authenticate() that get_valid_token and refresh_token make
\* after they released the read lock (auth.rs:216, 236)
Reauthenticate(c) ==
    /\ auth_pc[c].at = "authenticate"
    /\ AuthBuild(c, auth_pc[c].op)
    /\ UNCHANGED << credentials, token_ttl, token, clock, conn_token, conn_ret >>

\* refresh_token builds the new token (auth.rs:245-250)
RefreshBuild(c) ==
    /\ auth_pc[c].at = "build"
    /\ auth_tmp' = [auth_tmp EXCEPT ![c] =
                       new_token(auth_tmp[c].user_id, auth_tmp[c].roles,
                                 clock, token_ttl)]
    /\ auth_pc' = [auth_pc EXCEPT ![c] = [op |-> auth_pc[c].op, at |-> "store"]]
    /\ UNCHANGED << credentials, token_ttl, token, clock, auth_ret, conn_token, conn_ret >>

\* the token is stored under the write lock and returned
\* (auth.rs:197-200, 252-256; connection.rs:281-282)
StoreToken(c) ==
    /\ auth_pc[c].at = "store"
    /\ token' = << auth_tmp[c] >>
    /\ conn_token' = IF auth_pc[c].op = "connection_authenticate"
                     THEN << auth_tmp[c] >> ELSE conn_token
    /\ AuthReturned(c, auth_pc[c].op, OkRes, << auth_tmp[c] >>, FALSE)
    /\ UNCHANGED << credentials, token_ttl, clock, conn_ret >>

\* logout under the read lock (auth.rs:260-269)
Logout(c) ==
    /\ auth_pc[c] = AuthIdle
    /\ IF token = << >>
       THEN AuthReturned(c, "logout",
                         Err("AuthenticationFailed", "No token to logout"),
                         << >>, FALSE)
       ELSE /\ auth_pc' = [auth_pc EXCEPT ![c] = [op |-> "logout", at |-> "clear"]]
            /\ UNCHANGED << auth_tmp, auth_ret >>
    /\ UNCHANGED << credentials, token_ttl, token, clock, conn_token, conn_ret >>

\* a logout that reports success and leaves the cached token in place
ClearTokenKeeping(c) ==
    /\ auth_pc[c].at = "clear"
    /\ token' = token
    /\ AuthReturned(c, "logout", OkRes, << >>, FALSE)
    /\ UNCHANGED << credentials, token_ttl, clock, conn_token, conn_ret >>

\* logout clears the token under the write lock (auth.rs:273-277)
ClearToken(c) ==
    /\ auth_pc[c].at = "clear"
    /\ token' = << >>
    /\ AuthReturned(c, "logout", OkRes, << >>, FALSE)
    /\ UNCHANGED << credentials, token_ttl, clock, conn_token, conn_ret >>

\* Connection::send_authenticated_request up to the call of send_request
\* (connection.rs:288-309); "sent" stands for the request being handed to
\* send_request
SendAuthenticatedRequest ==
    /\ conn_ret' = IF conn_token = << >> THEN "AuthenticationFailed"
                   ELSE IF token_is_expired(conn_token[1], clock) THEN "TokenExpired"
                   ELSE "sent"
    /\ UNCHANGED << credentials, token_ttl, token, clock, auth_pc, auth_tmp,
                    auth_ret, conn_token >>

\* time passes
AuthTick ==
    /\ clock < MaxClock
    /\ clock' = clock + 1
    /\ UNCHANGED << credentials, token_ttl, token, auth_pc, auth_tmp,
                    auth_ret, conn_token, conn_ret >>

NoAuthCall ==
    [op |-> "none", res |-> OkRes, token |-> << >>, cached |-> FALSE]

\* AuthenticationManager::new (auth.rs:171-177) and a connection that has
\* not been authenticated (Connection.auth_token = None)
AuthNew ==
    /\ credentials \in CredentialsSet
    /\ token_ttl \in 1..MaxTtl
    /\ token = << >>
    /\ clock = 0
    /\ auth_pc = [c \in Tasks |-> AuthIdle]
    /\ auth_tmp = [c \in Tasks |-> NoCarried]
    /\ auth_ret = NoAuthCall
    /\ conn_token = << >>
    /\ conn_ret = "none"

\* no authentication manager is in use
NoAuth ==
    /\ credentials = [username |-> "admin", password |-> TRUE,
                      certificate |-> FALSE, token |-> FALSE]
    /\ token_ttl = 1
    /\ token = << >>
    /\ clock = 0
    /\ auth_pc = [c \in Tasks |-> AuthIdle]
    /\ auth_tmp = [c \in Tasks |-> NoCarried]
    /\ auth_ret = NoAuthCall
    /\ conn_token = << >>
    /\ conn_ret = "none"

(***************************************************************************)
(* Bytes and fixed-width integers.  A byte is a number in 0..255.  A u64   *)
(* (NodeId, sequence number, payload length; the i64 timestamp by its bit  *)
(* pattern) is kept as four 16-bit limbs, a u32 as two, least significant  *)
(* limb first, because values up to 2^64 do not fit the integers of the    *)
(* checker.                                                                *)
(***************************************************************************)
Bytes == 0..255

\* the limbs of a number below 2^31, as a u64 and as a u32
U64(n) == << n % 65536, n \div 65536, 0, 0 >>

U32(n) == << n % 65536, n \div 65536 >>

\* the sequence s from position i to position j
Slice(s, i, j) == [k \in 1..(j - i + 1) |-> s[i + k - 1]]

\* reading a fixed-width integer with the most significant byte first
from_be_bytes(bs) ==
    [k \in 1..(Len(bs) \div 2) |->
        (bs[Len(bs) - 2 * k + 1] * 256) + bs[Len(bs) - 2 * k + 2]]

\* {u64,i64,u32}::to_le_bytes, which is also how bincode writes a
\* fixed-width integer
to_le_bytes(limbs) ==
    [k \in 1..(2 * Len(limbs)) |->
        IF k % 2 = 1 THEN limbs[(k + 1) \div 2] % 256
                     ELSE limbs[k \div 2] \div 256]

\* reading the two bytes of every limb in the wrong order
from_le_bytes_swapped(bs) ==
    [k \in 1..(Len(bs) \div 2) |-> (256 * bs[2 * k - 1]) + bs[2 * k]]

\* how bincode reads a fixed-width integer: little endian
from_le_bytes(bs) ==
    [k \in 1..(Len(bs) \div 2) |-> bs[2 * k - 1] + (256 * bs[2 * k])]

\* u32::to_be_bytes (protocol.rs:206)
to_be_bytes(limbs) ==
    [k \in 1..(2 * Len(limbs)) |->
        IF k % 2 = 1 THEN limbs[Len(limbs) - (k - 1) \div 2] \div 256
                     ELSE limbs[Len(limbs) - (k - 1) \div 2] % 256]

\* the number a limb sequence stands for, or -1 when it is 2^31 or more
AsNat(limbs) ==
    IF \E k \in 3..Len(limbs) : limbs[k] # 0 THEN -1
    ELSE IF limbs[2] >= 32768 THEN -1
    ELSE limbs[1] + 65536 * limbs[2]

\* exclusive or of two bytes
BitXor(a, b) ==
    LET RECURSIVE X(_, _, _)
        X(x, y, n) == IF n = 0 THEN 0
                      ELSE ((x + y) % 2) + 2 * X(x \div 2, y \div 2, n - 1)
    IN  X(a, b, 8)

Xor8 == [a \in Bytes |-> [b \in Bytes |-> BitXor(a, b)]]

(***************************************************************************)
(* crc32fast::Hasher: CRC-32 (IEEE 802.3), reflected polynomial            *)
(* 0xEDB88320, initial value and final exclusive-or 0xFFFFFFFF.  The       *)
(* register is kept as four bytes, least significant first.                *)
(***************************************************************************)
CrcPoly == << 32, 131, 184, 237 >>

\* one bit of the register is shifted out
CrcShift(c) ==
    LET shifted == << (c[1] \div 2) + 128 * (c[2] % 2),
                      (c[2] \div 2) + 128 * (c[3] % 2),
                      (c[3] \div 2) + 128 * (c[4] % 2),
                      c[4] \div 2 >>
    IN  IF c[1] % 2 = 1
        THEN [k \in 1..4 |-> Xor8[shifted[k]][CrcPoly[k]]]
        ELSE shifted

CrcTable ==
    [i \in Bytes |->
        CrcShift(CrcShift(CrcShift(CrcShift(
        CrcShift(CrcShift(CrcShift(CrcShift(<< i, 0, 0, 0 >>))))))))]

\* Hasher::update for one byte
CrcByte(c, d) ==
    LET t == CrcTable[Xor8[c[1]][d]]
    IN  << Xor8[t[1]][c[2]], Xor8[t[2]][c[3]], Xor8[t[3]][c[4]], t[4] >>

\* Hasher::new, update(bs), finalize: the checksum as a u32
\* (the test on n[1] makes TLC compute n before it goes on)
RECURSIVE CrcUpdate(_, _, _)
CrcUpdate(c, bs, i) ==
    IF i > Len(bs) THEN c
    ELSE LET n == CrcByte(c, bs[i])
         IN  IF n[1] >= 0 THEN CrcUpdate(n, bs, i + 1) ELSE n

crc32(bs) ==
    LET c == CrcUpdate(<< 255, 255, 255, 255 >>, bs, 1)
    IN  from_le_bytes([k \in 1..4 |-> Xor8[c[k]][255]])

(***************************************************************************)
(* Message (protocol.rs:43-126).                                           *)
(***************************************************************************)
\* MessageType in declaration order (protocol.rs:17-38): bincode writes the
\* position of a variant, counted from 0, as a u32
MessageTypes ==
    << "Ping", "Pong", "Data", "Ack", "Error", "Heartbeat", "ClusterJoin",
       "ClusterLeave", "Replication", "Transaction" >>

\* type_discriminant (protocol.rs:98-109), equal to the variant index
discriminant(type) == (CHOOSE i \in 1..Len(MessageTypes) : MessageTypes[i] = type) - 1

\* Message::calculate_checksum (protocol.rs:88-117)
calculate_checksum(m) ==
    crc32(to_le_bytes(m.sender) \o to_le_bytes(m.recipient)
          \o to_le_bytes(m.sequence_number) \o to_le_bytes(m.timestamp)
          \o << discriminant(m.message_type) >> \o m.payload)

\* Message::new (protocol.rs:64-83)
new_message(sender, recipient, sequence_number, timestamp, message_type, payload) ==
    LET m == [sender |-> sender, recipient |-> recipient,
              sequence_number |-> sequence_number, timestamp |-> timestamp,
              message_type |-> message_type, payload |-> payload,
              checksum |-> U32(0)]
    IN  [m EXCEPT !.checksum = calculate_checksum(m)]

\* Message::verify_checksum (protocol.rs:122-125)
verify_checksum(m) == m.checksum = calculate_checksum(m)

NoMessage == new_message(U64(0), U64(0), U64(0), U64(0), "Ping", << >>)

(***************************************************************************)
(* bincode::serialize / bincode::deserialize of a Message (bincode 1.x,    *)
(* as called at protocol.rs:154 and 182): the fields in declaration order, *)
(* integers fixed-width little endian, the enum as a u32 variant index,    *)
(* the Vec<u8> as a u64 length followed by its bytes.  deserialize reads   *)
(* from the front of the input and does not look at bytes left over.       *)
(***************************************************************************)
bincode_serialize(m) ==
    to_le_bytes(m.sender) \o to_le_bytes(m.recipient)
    \o to_le_bytes(m.sequence_number) \o to_le_bytes(m.timestamp)
    \o to_le_bytes(U32(discriminant(m.message_type)))
    \o to_le_bytes(U64(Len(m.payload))) \o m.payload
    \o to_le_bytes(m.checksum)

\* the length of everything in front of the payload bytes
HeaderLen == 44

bincode_deserialize(bs) ==
    IF Len(bs) < HeaderLen THEN [ok |-> FALSE, msg |-> NoMessage]
    ELSE LET variant == AsNat(from_le_bytes(Slice(bs, 33, 36)))
             n == AsNat(from_le_bytes(Slice(bs, 37, 44)))
         IN  IF variant < 0 \/ variant >= Len(MessageTypes)
             THEN [ok |-> FALSE, msg |-> NoMessage]
             ELSE IF n < 0 \/ HeaderLen + n + 4 > Len(bs)
             THEN [ok |-> FALSE, msg |-> NoMessage]
             ELSE [ok |-> TRUE,
                   msg |-> [sender |-> from_le_bytes(Slice(bs, 1, 8)),
                            recipient |-> from_le_bytes(Slice(bs, 9, 16)),
                            sequence_number |-> from_le_bytes(Slice(bs, 17, 24)),
                            timestamp |-> from_le_bytes(Slice(bs, 25, 32)),
                            message_type |-> MessageTypes[variant + 1],
                            payload |-> Slice(bs, HeaderLen + 1, HeaderLen + n),
                            checksum |-> from_le_bytes(
                                Slice(bs, HeaderLen + n + 1, HeaderLen + n + 4))]]

(***************************************************************************)
(* MessageCodec (protocol.rs:130-282).  A result carries the bytes or the  *)
(* message of a success and, for ChecksumMismatch, expected and actual.    *)
(***************************************************************************)
CodecOk(bytes, msg) ==
    [res |-> OkRes, bytes |-> bytes, msg |-> msg,
     expected |-> U32(0), actual |-> U32(0)]

CodecErr(kind) ==
    [res |-> Err(kind, ""), bytes |-> << >>, msg |-> NoMessage,
     expected |-> U32(0), actual |-> U32(0)]

\* a size test that lets one byte too many through
exceeds_limit_by_two(size, max) == size > max + 1

\* the size test of encode and decode (protocol.rs:159, 174)
exceeds_limit(size, max) == size > max

\* MessageCodec::encode (protocol.rs:153-167)
encode(max, m) ==
    LET encoded == bincode_serialize(m)
    IN  IF exceeds_limit(Len(encoded), max)
        THEN CodecErr("MessageTooLarge")
        ELSE CodecOk(encoded, m)

\* MessageCodec::decode (protocol.rs:172-196)
decode(max, bs) ==
    IF exceeds_limit(Len(bs), max) THEN CodecErr("MessageTooLarge")
    ELSE LET d == bincode_deserialize(bs)
         IN  IF ~d.ok THEN CodecErr("SerializationError")
             ELSE IF ~verify_checksum(d.msg)
             THEN [CodecErr("ChecksumMismatch") EXCEPT
                       !.expected = calculate_checksum(d.msg),
                       !.actual = d.msg.checksum]
             ELSE CodecOk(<< >>, d.msg)

\* MessageCodec::encode_with_length (protocol.rs:201-210)
encode_with_length(max, m) ==
    LET e == encode(max, m)
    IN  IF IsErr(e.res) THEN e
        ELSE CodecOk(to_be_bytes(U32(Len(e.bytes))) \o e.bytes, m)

\* MessageCodec::read_message (protocol.rs:215-249) on a reader that holds bs
read_message(max, bs) ==
    IF Len(bs) < 4 THEN CodecErr("NetworkError")
    ELSE LET length == AsNat(from_be_bytes(Slice(bs, 1, 4)))
         IN  IF length < 0 \/ length > max THEN CodecErr("MessageTooLarge")
             ELSE IF Len(bs) < 4 + length THEN CodecErr("NetworkError")
             ELSE decode(max, Slice(bs, 5, 4 + length))

\* values of max_message_size (MessageCodec::with_max_size, protocol.rs:145)
MaxSizes == {47, 50, 60}

\* payloads for a message with the given other fields: empty, five bytes,
\* and one byte followed by the four bytes of the checksum of the message
\* that has that one byte as its payload
PayloadsFor(sender, recipient, sequence_number, timestamp, message_type) ==
    {<< >>, << 1, 2, 3, 4, 5 >>,
     << 9 >> \o to_le_bytes(new_message(sender, recipient, sequence_number,
                                        timestamp, message_type, << 9 >>).checksum)}

\* the messages handed to the codec, all built by Message::new
Messages ==
    UNION {{new_message(U64(1), U64(2), U64(q), U64(70000), ty, pl) :
               pl \in PayloadsFor(U64(1), U64(2), U64(q), U64(70000), ty)} :
           q \in {0, 258}, ty \in {"Ping", "Data", "Transaction"}}

\* the changes made to one byte in transit: one bit, or all eight
Masks == {1, 2, 4, 8, 16, 32, 64, 128, 255}

NoCodecCall == [CodecErr("none") EXCEPT !.res = OkRes]

\* codec.encode(&message)
Encode ==
    /\ codec_pc = "built"
    /\ LET r == encode(max_message_size, message) IN
       /\ codec_ret' = r
       /\ data' = r.bytes
       /\ codec_pc' = IF IsErr(r.res) THEN "failed" ELSE "encoded"
    /\ UNCHANGED << max_message_size, message >>

\* codec.encode_with_length(&message), the bytes write_message writes
\* (protocol.rs:257-265)
EncodeWithLength ==
    /\ codec_pc = "built"
    /\ LET r == encode_with_length(max_message_size, message) IN
       /\ codec_ret' = r
       /\ data' = r.bytes
       /\ codec_pc' = IF IsErr(r.res) THEN "failed" ELSE "framed"
    /\ UNCHANGED << max_message_size, message >>

\* one byte of the encoded message changes on the way
Corrupt ==
    /\ codec_pc = "encoded"
    /\ \E i \in 1..Len(data), mask \in Masks :
           data' = [data EXCEPT ![i] = Xor8[data[i]][mask]]
    /\ codec_pc' = "corrupted"
    /\ UNCHANGED << max_message_size, message, codec_ret >>

\* codec.decode(&data)
Decode ==
    /\ codec_pc \in {"encoded", "corrupted"}
    /\ codec_ret' = decode(max_message_size, data)
    /\ codec_pc' = IF codec_pc = "encoded" THEN "decoded" ELSE "decoded_corrupted"
    /\ UNCHANGED << max_message_size, message, data >>

\* codec.read_message(reader) where the reader holds what was written
ReadMessage ==
    /\ codec_pc = "framed"
    /\ codec_ret' = read_message(max_message_size, data)
    /\ codec_pc' = "read"
    /\ UNCHANGED << max_message_size, message, data >>

\* a codec and a message built with Message::new
CodecNew ==
    /\ max_message_size \in MaxSizes
    /\ message \in Messages
    /\ data = << >>
    /\ codec_ret = NoCodecCall
    /\ codec_pc = "built"

\* no codec is at work
NoCodec ==
    /\ max_message_size = 60
    /\ message = NoMessage
    /\ data = << >>
    /\ codec_ret = NoCodecCall
    /\ codec_pc = "idle"

(***************************************************************************)
(* ProtocolType (connection.rs:51-76) and                                  *)
(* ProtocolNegotiation::select_protocol (protocol.rs:312-328).             *)
(***************************************************************************)
ProtocolTypes == {"TCP", "UDP", "TLS"}

\* every list of at most MaxProtocols protocols, repetitions included
ProtocolLists == UNION {[1..n -> ProtocolTypes] : n \in 0..MaxProtocols}

\* a ranking that puts TCP first
priority_tcp_first(p) ==
    CASE p = "TCP" -> 3
      [] p = "TLS" -> 2
      [] p = "UDP" -> 1

\* ProtocolType::priority (connection.rs:64-70)
priority(p) ==
    CASE p = "TLS" -> 3
      [] p = "TCP" -> 2
      [] p = "UDP" -> 1

\* slice::contains
contains(list, x) == \E i \in DOMAIN list : list[i] = x

\* common.sort_by_key(|p| Reverse(p.priority())) (protocol.rs:324): a stable
\* sort, highest priority first; x goes behind every element that does not
\* rank below it
insert_by_priority(sorted, x) ==
    LET k == Cardinality({i \in DOMAIN sorted : priority(sorted[i]) >= priority(x)})
    IN  SubSeq(sorted, 1, k) \o << x >> \o SubSeq(sorted, k + 1, Len(sorted))

RECURSIVE sort_by_key(_)
sort_by_key(list) ==
    IF list = << >> THEN << >>
    ELSE insert_by_priority(sort_by_key(SubSeq(list, 1, Len(list) - 1)),
                            list[Len(list)])

\* common.first().copied() (protocol.rs:327)
first(list) == IF list = << >> THEN << >> ELSE << list[1] >>

\* ProtocolNegotiation::select_protocol (protocol.rs:312-328)
select_protocol(client, server) ==
    LET common == SelectSeq(client, LAMBDA p : contains(server, p))
    IN  first(sort_by_key(common))

\* the call of select_protocol
SelectProtocol ==
    /\ proto_pc = "idle"
    /\ selected' = select_protocol(client_protocols, server_protocols)
    /\ proto_pc' = "selected"
    /\ UNCHANGED << client_protocols, server_protocols >>

\* the two lists select_protocol is called with
ProtoNew ==
    /\ client_protocols \in ProtocolLists
    /\ server_protocols \in ProtocolLists
    /\ selected = << >>
    /\ proto_pc = "idle"

\* no protocol selection takes place
NoProto ==
    /\ client_protocols = << >>
    /\ server_protocols = << >>
    /\ selected = << >>
    /\ proto_pc = "idle"

(***************************************************************************)
(* Feature negotiation (types.rs:596-612, connection.rs:330-383).          *)
(***************************************************************************)
Features == {"Compression", "Heartbeat", "Streaming"}

\* every list of at most MaxFeatures features, repetitions included
FeatureLists == UNION {[1..n -> Features] : n \in 0..MaxFeatures}

\* how the exchange with the server can end: the request cannot be written
\* (connection.rs:356), no valid message is read (connection.rs:359), the
\* payload of the reply is no FeatureNegotiation (connection.rs:361-366),
\* or the reply carries a feature list
ServerReplies ==
    {[kind |-> k, features |-> << >>] :
        k \in {"send_failed", "receive_failed", "bad_payload"}}
    \cup {[kind |-> "reply", features |-> f] : f \in FeatureLists}

NoNegotiation == [res |-> OkRes, features |-> << >>, called |-> FALSE]

\* a codec that keeps its configured compression whatever was negotiated
codec_compression_kept(enabled, negotiated) == enabled

\* the update of the codec at the end of negotiate_features
\* (connection.rs:377-380)
codec_compression(enabled, negotiated) ==
    IF ~contains(negotiated, "Compression") THEN FALSE ELSE enabled

\* Connection::negotiate_features (connection.rs:330-383), called once on
\* the new connection
NegotiateFeatures ==
    \E features \in FeatureLists, reply \in ServerReplies :
        /\ ~feat_ret.called
        /\ client_features' = features
        /\ IF reply.kind = "reply"
           THEN LET negotiated ==
                        SelectSeq(features, LAMBDA f : contains(reply.features, f))
                IN  /\ server_features' = reply.features
                    /\ negotiated_features' = negotiated
                    /\ compression_enabled' =
                           codec_compression(compression_enabled, negotiated)
                    /\ feat_ret' = [res |-> OkRes, features |-> negotiated,
                                    called |-> TRUE]
           ELSE /\ feat_ret' =
                       [res |-> Err(IF reply.kind = "bad_payload"
                                    THEN "SerializationError" ELSE "NetworkError",
                                    reply.kind),
                        features |-> << >>, called |-> TRUE]
                /\ UNCHANGED << server_features, negotiated_features,
                                compression_enabled >>
        /\ UNCHANGED config_compression_enabled

\* MessageCodec::with_compression as connect_with_config calls it
\* (connection.rs:208-211): the codec takes the configured setting
with_compression(enabled) == enabled

\* Connection::connect_with_config (connection.rs:175-222)
FeatureNew ==
    /\ config_compression_enabled \in BOOLEAN
    /\ compression_enabled = with_compression(config_compression_enabled)
    /\ negotiated_features = << >>
    /\ client_features = << >>
    /\ server_features = << >>
    /\ feat_ret = NoNegotiation

\* no connection negotiates features
NoFeatures ==
    /\ config_compression_enabled = FALSE
    /\ compression_enabled = FALSE
    /\ negotiated_features = << >>
    /\ client_features = << >>
    /\ server_features = << >>
    /\ feat_ret = NoNegotiation

(***************************************************************************)
(* NodeHealth (connection.rs:78-114) and the health map of the             *)
(* ConnectionManager (connection.rs:657-677).  last_check, the time of the *)
(* last observation, is left out; consecutive_failures is a u32 and stays  *)
(* below MaxObservations + 1 here.                                         *)
(***************************************************************************)
Nodes == 1..NumNodes

\* NodeHealth::new (connection.rs:92-99)
new_health(node_id) ==
    [node_id |-> node_id, is_healthy |-> TRUE, consecutive_failures |-> 0]

\* NodeHealth::mark_healthy (connection.rs:102-106)
mark_healthy(h) == [h EXCEPT !.is_healthy = TRUE, !.consecutive_failures = 0]

\* a mark that sets the flag and does not count
mark_unhealthy_uncounted(h) == [h EXCEPT !.is_healthy = FALSE]

\* NodeHealth::mark_unhealthy (connection.rs:109-113)
mark_unhealthy(h) ==
    [h EXCEPT !.is_healthy = FALSE,
              !.consecutive_failures = h.consecutive_failures + 1]

\* entry(node_id).and_modify(|h| h.mark_unhealthy()).or_insert_with(..)
\* (connection.rs:660-667): a tracked node is marked, an untracked one is
\* inserted as a new node marked unhealthy
mark_node_unhealthy(map, id) ==
    [k \in DOMAIN map \cup {id} |->
        IF k # id THEN map[k]
        ELSE IF id \in DOMAIN map THEN mark_unhealthy(map[id])
        ELSE mark_unhealthy(new_health(id))]

\* entry(node_id).and_modify(|h| h.mark_healthy()).or_insert_with(..)
\* (connection.rs:673-676): a tracked node is marked, an untracked one is
\* inserted as a new node
mark_node_healthy(map, id) ==
    [k \in DOMAIN map \cup {id} |->
        IF k # id THEN map[k]
        ELSE IF id \in DOMAIN map THEN mark_healthy(map[id])
        ELSE new_health(id)]

\* ConnectionManager::mark_node_unhealthy (connection.rs:658-668)
MarkNodeUnhealthy(n) ==
    /\ Len(observations[n]) < MaxObservations
    /\ node_health' = mark_node_unhealthy(node_health, n)
    /\ observations' = [observations EXCEPT ![n] = Append(@, FALSE)]

\* ConnectionManager::mark_node_healthy (connection.rs:671-677)
MarkNodeHealthy(n) ==
    /\ Len(observations[n]) < MaxObservations
    /\ node_health' = mark_node_healthy(node_health, n)
    /\ observations' = [observations EXCEPT ![n] = Append(@, TRUE)]

\* ConnectionManager::new (connection.rs:590-596): no node is tracked
HealthNew ==
    /\ node_health = << >>
    /\ observations = [n \in Nodes |-> << >>]

(***************************************************************************)
(* Client::disconnect (client.rs:288-305), one step per await.  The task   *)
(* that disconnects is the caller Closer of the pool and task 1 of the     *)
(* authentication manager.                                                 *)
(***************************************************************************)
Closer == NumCallers

\* self.connection_manager.get_connection().await? (client.rs:292): an
\* error of get_connection is returned by disconnect
acquired_or_return(outcome) == outcome = "Ok"

\* get_connection up to the release of the pool lock (client.rs:292)
DisconnectAcquire ==
    /\ disc_pc = "idle"
    /\ GetConnection(Closer)
    /\ IF pc'[Closer] = "creating"
       THEN disc_pc' = "creating" /\ disc_ret' = disc_ret
       ELSE IF acquired_or_return(pool_ret'[Closer])
       THEN disc_pc' = "logout" /\ disc_ret' = disc_ret
       ELSE disc_pc' = "done" /\ disc_ret' = pool_ret'[Closer]
    /\ UNCHANGED << disc_closed, node_health, observations >>

\* get_connection dials a new connection (client.rs:292)
DisconnectCreate ==
    /\ disc_pc = "creating"
    /\ CreateConnection(Closer)
    /\ IF acquired_or_return(pool_ret'[Closer])
       THEN disc_pc' = "logout" /\ disc_ret' = disc_ret
       ELSE disc_pc' = "done" /\ disc_ret' = pool_ret'[Closer]
    /\ UNCHANGED << disc_closed, node_health, observations >>

\* self.auth_manager.logout() under the read lock; an error is logged
\* (client.rs:293-296)
DisconnectLogout ==
    /\ disc_pc = "logout"
    /\ Logout(1)
    /\ disc_pc' = IF auth_pc'[1].at = "clear" THEN "clearing" ELSE "return"
    /\ UNCHANGED << disc_ret, disc_closed, node_health, observations >>

\* logout under the write lock (client.rs:293)
DisconnectClear ==
    /\ disc_pc = "clearing"
    /\ ClearToken(1)
    /\ disc_pc' = "return"
    /\ UNCHANGED << disc_ret, disc_closed, node_health, observations >>

\* self.connection_manager.return_connection(conn) (client.rs:297)
DisconnectReturn ==
    /\ disc_pc = "return"
    /\ ReturnConnection(Closer)
    /\ disc_pc' = "closing"
    /\ UNCHANGED << disc_ret, disc_closed, node_health, observations >>

\* ConnectionManager::disconnect (connection.rs:715-726) and the return of
\* Client::disconnect (client.rs:301-304)
DisconnectClose ==
    /\ disc_pc = "closing"
    /\ available' = << >>
    /\ total_connections' = 0
    /\ node_health' = << >>
    /\ observations' = [n \in Nodes |-> << >>]
    /\ disc_closed' = TRUE
    /\ disc_ret' = "Ok"
    /\ disc_pc' = "done"
    /\ UNCHANGED << now, pc, held, pool_ret, dialed >>

\* the pool as Client::connect leaves it (client.rs:115-129): one
\* connection was dialed for the initial authentication and returned
PoolConnected ==
    /\ \E h \in 1..NumHosts : available = << new_pooled(1, h, 0) >>
    /\ total_connections = 1
    /\ now = 0
    /\ pc = [c \in Callers |-> "idle"]
    /\ held = [c \in Callers |-> NoConn]
    /\ pool_ret = [c \in Callers |-> "none"]
    /\ dialed = 1

\* the authentication manager as Client::connect leaves it
\* (client.rs:107-116): valid credentials, the token of the initial
\* authentication stored; the clock of the manager is not followed here
AuthConnected ==
    /\ credentials = [username |-> "admin", password |-> TRUE,
                      certificate |-> FALSE, token |-> FALSE]
    /\ token_ttl = MaxTtl
    /\ token = << new_token(1, {"User"}, 0, MaxTtl) >>
    /\ clock = 0
    /\ auth_pc = [c \in Tasks |-> AuthIdle]
    /\ auth_tmp = [c \in Tasks |-> NoCarried]
    /\ auth_ret = [op |-> "authenticate", res |-> OkRes,
                   token |-> << new_token(1, {"User"}, 0, MaxTtl) >>,
                   cached |-> FALSE]
    /\ conn_token = << >>
    /\ conn_ret = "none"

\* the health map of a client in use: empty, or node 1 reported unhealthy
HealthTracked ==
    \E seen \in BOOLEAN :
        /\ node_health = IF seen THEN mark_node_unhealthy(<< >>, 1) ELSE << >>
        /\ observations = [n \in Nodes |->
                              IF seen /\ n = 1 THEN << FALSE >> ELSE << >>]

\* Client::disconnect has not been called
DisconnectNew ==
    /\ disc_pc = "idle"
    /\ disc_ret = "none"
    /\ disc_closed = FALSE

(***************************************************************************)
(* The waits on the network.  A wait wrapped in tokio::time::timeout has a *)
(* timer; send_message (protocol.rs:254-275) and receive_message           *)
(* (protocol.rs:215-249) by themselves have none.                          *)
(***************************************************************************)
WaitOps == {"send_request", "negotiate_features", "health_check", "stream_next"}

NoTimer == 0 - 1

\* the environment of the call does not change
WaitEnvUnchanged ==
    UNCHANGED << wait_op, wait_timeout_ms, host_reachable, server_reads,
                 server_answers, frame_fits >>

\* the first wait of the operation: send_request and negotiate_features
\* write the request (connection.rs:265, 356), the health probe dials under
\* timeout(config.timeout_ms) (connection.rs:615), ResultStream::next reads
\* (data_client.rs:115)
WaitStart ==
    /\ wait_pc = "start"
    /\ wait_pc' = CASE wait_op = "health_check" -> "connecting"
                    [] wait_op = "stream_next" -> "reading"
                    [] OTHER -> "writing"
    /\ wait_timer' = IF wait_op = "health_check" THEN wait_timeout_ms ELSE NoTimer
    /\ UNCHANGED wait_ret
    /\ WaitEnvUnchanged

\* a millisecond of an armed timer passes
WaitTick ==
    /\ wait_pc # "done"
    /\ wait_timer > 0
    /\ wait_timer' = wait_timer - 1
    /\ UNCHANGED << wait_pc, wait_ret >>
    /\ WaitEnvUnchanged

\* the timer of a timeout(..) fires: ConnectionTimeout for the dial
\* (connection.rs:143-146), TimeoutError for the reply of send_request
\* (connection.rs:268-275)
TimerFires ==
    /\ wait_pc \in {"connecting", "reading"}
    /\ wait_timer = 0
    /\ wait_ret' = IF wait_pc = "connecting" THEN "ConnectionTimeout" ELSE "TimeoutError"
    /\ wait_pc' = "done"
    /\ wait_timer' = NoTimer
    /\ WaitEnvUnchanged

\* the dial of the health probe is answered (connection.rs:615): the probe
\* goes on to write its ping, or records the node as unhealthy
DialAnswered ==
    /\ wait_pc = "connecting"
    /\ host_reachable
    /\ \E r \in DialResults \ {"ConnectionTimeout"} :
         IF r = "Ok"
         THEN wait_pc' = "writing" /\ wait_ret' = wait_ret
         ELSE wait_pc' = "done" /\ wait_ret' = r
    /\ wait_timer' = NoTimer
    /\ WaitEnvUnchanged

\* write_all and flush of send_message complete (protocol.rs:261-273):
\* send_request goes on to read under timeout(timeout_ms)
\* (connection.rs:268-271), negotiate_features to read
\* (connection.rs:359), the probe is finished (connection.rs:628-632)
WriteCompletes ==
    /\ wait_pc = "writing"
    /\ frame_fits \/ server_reads
    /\ IF wait_op = "health_check"
       THEN wait_pc' = "done" /\ wait_ret' = "Ok" /\ wait_timer' = NoTimer
       ELSE /\ wait_pc' = "reading"
            /\ wait_ret' = wait_ret
            /\ wait_timer' = IF wait_op = "send_request"
                             THEN wait_timeout_ms ELSE NoTimer
    /\ WaitEnvUnchanged

\* the peer sends a frame or closes the connection: the read or the write
\* in progress ends with a message or with a NetworkError
PeerActs ==
    /\ wait_pc \in {"writing", "reading"}
    /\ server_answers
    /\ wait_ret' \in IF wait_pc = "reading" THEN {"Ok", "NetworkError"}
                     ELSE {"NetworkError"}
    /\ wait_pc' = "done"
    /\ wait_timer' = NoTimer
    /\ WaitEnvUnchanged

\* one call and its peer; the ping of the probe is the first frame on a new
\* connection and fits into its buffer
WaitNew ==
    /\ wait_op \in WaitOps
    /\ wait_timeout_ms \in 1..MaxTimeoutMs
    /\ wait_pc = "start"
    /\ wait_timer = NoTimer
    /\ wait_ret = "none"
    /\ host_reachable \in BOOLEAN
    /\ server_reads \in BOOLEAN
    /\ server_answers \in BOOLEAN
    /\ frame_fits \in BOOLEAN
    /\ wait_op = "health_check" => frame_fits

\* no operation waits on the network
NoWait ==
    /\ wait_op = "send_request"
    /\ wait_timeout_ms = 1
    /\ wait_pc = "done"
    /\ wait_timer = NoTimer
    /\ wait_ret = "none"
    /\ host_reachable = TRUE
    /\ server_reads = TRUE
    /\ server_answers = TRUE
    /\ frame_fits = TRUE

(***************************************************************************)
(* DataClient::begin_transaction (data_client.rs:498-558), called by the   *)
(* tasks of Tasks; a step ends where the call waits for the server.        *)
(***************************************************************************)
\* Transaction::new (transaction.rs:129-140)
new_transaction(id) == [transaction_id |-> id, is_committed |-> FALSE]

\* how get_connection and get_valid_token (data_client.rs:502-505) can end
AcquireResults == {"Ok", "InternalError", "AuthenticationFailed"}

\* the replies to Begin (data_client.rs:520-555): BeginSuccess, Error,
\* another response, or none within the timeout
BeginReplies == {"BeginSuccess", "Error", "Unexpected", "TimeoutError"}

\* begin_transaction up to the request: connection, token, identifier
\* taken from the clock (a non-negative i64 cast to u64), Begin written
\* (data_client.rs:502-523)
BeginTransaction(c) ==
    /\ begin_pc[c] = "idle"
    /\ Len(transactions) < MaxBegun
    /\ \E acquired \in AcquireResults :
         IF acquired = "Ok"
         THEN /\ begin_id' = [begin_id EXCEPT ![c] = begin_now]
              /\ begin_pc' = [begin_pc EXCEPT ![c] = "sent"]
              /\ UNCHANGED begin_ret
         ELSE /\ begin_ret' = acquired
              /\ UNCHANGED << begin_id, begin_pc >>
    /\ UNCHANGED << begin_now, transactions >>

\* the rest of begin_transaction (data_client.rs:520-557): the reply is
\* read and on BeginSuccess the Transaction is created
BeginReplied(c) ==
    /\ begin_pc[c] = "sent"
    /\ \E reply \in BeginReplies :
         /\ transactions' = IF reply = "BeginSuccess"
                            THEN Append(transactions, new_transaction(begin_id[c]))
                            ELSE transactions
         /\ begin_ret' = CASE reply = "BeginSuccess" -> "Ok"
                           [] reply = "TimeoutError" -> "TimeoutError"
                           [] OTHER -> "InternalError"
    /\ begin_pc' = [begin_pc EXCEPT ![c] = "idle"]
    /\ UNCHANGED << begin_now, begin_id >>

\* a millisecond passes
BeginTick ==
    /\ begin_now < MaxNow
    /\ begin_now' = begin_now + 1
    /\ UNCHANGED << begin_pc, begin_id, transactions, begin_ret >>

\* a client on which no transaction has been begun
BeginNew ==
    /\ begin_now = 1
    /\ begin_pc = [c \in Tasks |-> "idle"]
    /\ begin_id = [c \in Tasks |-> 0]
    /\ transactions = << >>
    /\ begin_ret = "none"


(***************************************************************************)
(* DataClient (data_client.rs:254-558): execute_with_params,               *)
(* query_with_params, prepare and begin_transaction each take a connection *)
(* from the pool, ask for a token, exchange one request and one response   *)
(* on the connection and return.  The pool is the one modelled above.      *)
(***************************************************************************)
DataOps == {"execute_with_params", "query_with_params", "prepare", "begin_transaction"}

\* how the part of an operation between get_connection and its return can
\* go: get_valid_token fails, send_request fails, the response payload
\* does not deserialize, the server answers with an error, the server
\* answers with success
DataOutcomes == {"AuthenticationFailed", "NetworkError", "SerializationError",
                 "ServerError", "Ok"}

\* the paths on which the operation calls return_connection before it
\* returns: the success path of execute_with_params (data_client.rs:297),
\* query_with_params (data_client.rs:355) and prepare (data_client.rs:448),
\* and the Error-response path of begin_transaction (data_client.rs:543);
\* every `?` and every other early return leaves without it
gives_back(op, outcome) ==
    IF op = "begin_transaction" THEN outcome = "ServerError" ELSE outcome = "Ok"

\* what the caller gets for an outcome
data_result(outcome) == IF outcome = "ServerError" THEN "InternalError" ELSE outcome

\* the operation starts: get_connection up to the release of the lock
\* (data_client.rs:256, 313, 417, 502)
DataAcquire(c) ==
    /\ data_op[c] = "none"
    /\ GetConnection(c)
    /\ \E op \in DataOps :
         IF pool_ret'[c] = "PoolExhausted"
         THEN /\ data_op' = data_op
              /\ data_ret' = [data_ret EXCEPT ![c] = "InternalError"]
         ELSE /\ data_op' = [data_op EXCEPT ![c] = op]
              /\ data_ret' = [data_ret EXCEPT ![c] = "pending"]

\* get_connection dials; when no host connects the operation returns the
\* error through `?`
DataCreate(c) ==
    /\ data_op[c] \in DataOps
    /\ CreateConnection(c)
    /\ IF pc'[c] = "idle"
       THEN /\ data_op' = [data_op EXCEPT ![c] = "none"]
            /\ data_ret' = [data_ret EXCEPT ![c] = pool_ret'[c]]
       ELSE UNCHANGED << data_op, data_ret >>

\* the rest of the operation, from get_valid_token to the return
\* (data_client.rs:258-302, 315-361, 418-457, 508-557)
DataFinish(c) ==
    /\ data_op[c] \in DataOps
    /\ pc[c] = "holding"
    /\ \E outcome \in DataOutcomes :
         /\ data_ret' = [data_ret EXCEPT ![c] = data_result(outcome)]
         /\ IF gives_back(data_op[c], outcome)
            THEN /\ ReturnConnection(c)
                 /\ data_op' = [data_op EXCEPT ![c] = "none"]
            ELSE IF data_op[c] = "begin_transaction" /\ outcome = "Ok"
            THEN \* Transaction::new takes the connection (data_client.rs:538)
                 /\ data_op' = [data_op EXCEPT ![c] = "transaction"]
                 /\ UNCHANGED poolVars
            ELSE \* the PooledConnection goes out of scope
                 /\ data_op' = [data_op EXCEPT ![c] = "none"]
                 /\ held' = [held EXCEPT ![c] = NoConn]
                 /\ pc' = [pc EXCEPT ![c] = "idle"]
                 /\ UNCHANGED << available, total_connections, now, pool_ret, dialed >>

\* the Transaction is committed, rolled back or dropped: commit and
\* rollback consume it (transaction.rs:282-346) and its connection goes
\* out of scope with it
TransactionEnds(c) ==
    /\ data_op[c] = "transaction"
    /\ data_op' = [data_op EXCEPT ![c] = "none"]
    /\ held' = [held EXCEPT ![c] = NoConn]
    /\ pc' = [pc EXCEPT ![c] = "idle"]
    /\ UNCHANGED << available, total_connections, now, pool_ret, dialed, data_ret >>

\* no operation of the DataClient in progress
NoData ==
    /\ data_op = [c \in Callers |-> "none"]
    /\ data_ret = [c \in Callers |-> "none"]


(***************************************************************************)
(* MessageCodec::read_message (protocol.rs:215-249) and its reader: what   *)
(* the call takes from the reader and what it allocates.                   *)
(***************************************************************************)
\* the declared length of the body, the prefix read as u32 (protocol.rs:230)
declared_length(bs) == AsNat(from_be_bytes(Slice(bs, 1, 4)))

\* the size test of read_message (protocol.rs:233); a length of 2^31 or
\* more is above every limit used here
prefix_too_large(bs, max) == declared_length(bs) < 0 \/ declared_length(bs) > max

\* what is left in a reader holding bs after read_exact took n bytes;
\* read_exact takes what there is when there is less
after_read_exact(bs, n) == IF Len(bs) <= n THEN << >> ELSE Slice(bs, n + 1, Len(bs))

\* a reading that allocates and fills the body buffer before the size test
read_message_reader_eager(max, bs) ==
    IF Len(bs) < 4 THEN [rest |-> << >>, allocated |-> 0]
    ELSE IF declared_length(bs) < 0
    THEN [rest |-> after_read_exact(bs, 4), allocated |-> 0]
    ELSE [rest |-> after_read_exact(bs, 4 + declared_length(bs)),
          allocated |-> declared_length(bs)]

\* the effects of read_message on a reader holding bs: the prefix is read
\* (protocol.rs:220-228), the size is tested (protocol.rs:233-238), and only
\* then the buffer is allocated (protocol.rs:241) and filled
\* (protocol.rs:242-247)
read_message_reader(max, bs) ==
    IF Len(bs) < 4 THEN [rest |-> << >>, allocated |-> 0]
    ELSE IF prefix_too_large(bs, max)
    THEN [rest |-> after_read_exact(bs, 4), allocated |-> 0]
    ELSE [rest |-> after_read_exact(bs, 4 + declared_length(bs)),
          allocated |-> declared_length(bs)]

\* the buffer of test_codec_read_message_validates_size (protocol.rs:546-547)
OversizedPrefix == to_be_bytes(U32(1000))

\* what a reader can hold: a frame written by a peer whose limit is the
\* largest one, alone or followed by the start of the next frame; a prefix
\* that declares 1000 or 2^32 - 1 bytes, alone or followed by bytes; a
\* prefix cut short; a frame cut short
Streams ==
    {encode_with_length(60, m).bytes : m \in Messages}
    \cup {encode_with_length(60, m).bytes \o << 0, 0 >> : m \in Messages}
    \cup {OversizedPrefix, OversizedPrefix \o << 7, 7, 7 >>,
          << 255, 255, 255, 255, 1 >>, << 0, 0 >>, << 0, 0, 0, 48, 1, 2, 3 >>}

\* codec.read_message(reader)
ReadFromReader ==
    /\ codec_pc = "reader"
    /\ codec_ret' = read_message(max_message_size, data)
    /\ data' = read_message_reader(max_message_size, data).rest
    /\ read_allocated' = read_message_reader(max_message_size, data).allocated
    /\ codec_pc' = "read"
    /\ UNCHANGED << max_message_size, message >>

\* a codec and a reader that holds a stream
ReaderNew ==
    /\ max_message_size \in MaxSizes
    /\ message = NoMessage
    /\ data \in Streams
    /\ codec_ret = NoCodecCall
    /\ codec_pc = "reader"
    /\ read_allocated = 0

\* no read_message has run
NoRead == read_allocated = 0


(***************************************************************************)
(* The sequence numbers of the messages a client writes on a connection    *)
(* (connection.rs:229-276, 330-363; data_client.rs:386-403;                *)
(* connection.rs:616-627).                                                 *)
(***************************************************************************)
\* Connection::next_sequence_number (connection.rs:229-231): fetch_add
\* returns the value before the addition
next_sequence_number(counter) == [seq |-> counter, counter |-> counter + 1]

\* a message on the log of a connection
Sent(seq, by) == [seq |-> seq, by |-> by]

\* Connection::send_request writes its request (connection.rs:251-264)
SendRequest ==
    /\ Len(seq_sent) < MaxSent
    /\ LET n == next_sequence_number(seq_counter) IN
       /\ seq_counter' = n.counter
       /\ seq_sent' = Append(seq_sent, Sent(n.seq, "send_request"))
    /\ UNCHANGED probe_sent

\* Connection::negotiate_features writes its request (connection.rs:346-360)
NegotiateSend ==
    /\ Len(seq_sent) < MaxSent
    /\ LET n == next_sequence_number(seq_counter) IN
       /\ seq_counter' = n.counter
       /\ seq_sent' = Append(seq_sent, Sent(n.seq, "negotiate_features"))
    /\ UNCHANGED probe_sent

\* DataClient::query_stream writes the query with send_message and the
\* literal 0 as its sequence number (data_client.rs:390-401); the
\* connection comes from the pool and the counter is not touched
QueryStreamSend ==
    /\ Len(seq_sent) < MaxSent
    /\ seq_sent' = Append(seq_sent, Sent(0, "query_stream"))
    /\ UNCHANGED << seq_counter, probe_sent >>

\* one host in health_check_all_nodes (connection.rs:616-627): a new
\* connection, and on it a Ping with the literal 0, after which the
\* connection is dropped
HealthPing ==
    /\ \E connected \in BOOLEAN :
         probe_sent' = IF connected THEN << Sent(0, "health_check") >> ELSE << >>
    /\ UNCHANGED << seq_counter, seq_sent >>

\* Connection::connect (connection.rs:137-173): the counter starts at 0
SeqNew ==
    /\ seq_counter = 0
    /\ seq_sent = << >>
    /\ probe_sent = << >>


(***************************************************************************)
(* ConnectionManager::health_check_all_nodes (connection.rs:608-655): one  *)
(* run probes every configured host; host number n is node n.              *)
(***************************************************************************)
\* what probing one host gives: the ping was written, the dial failed,
\* the write failed
ProbeOutcomes == {"Ok", "ConnectFailed", "PingFailed"}

\* the NodeHealth a run builds for a host (connection.rs:614-644): always a
\* new record, marked once
probe_health(node_id, outcome) ==
    IF outcome = "Ok" THEN mark_healthy(new_health(node_id))
    ELSE mark_unhealthy(new_health(node_id))

\* one run: for every host the record built for it replaces what the map
\* held for the node (node_health.insert, connection.rs:649-650)
HealthCheckAllNodes ==
    /\ \A n \in Nodes : Len(observations[n]) < MaxObservations
    /\ \E outcome \in [Nodes -> ProbeOutcomes] :
         /\ node_health' = [n \in DOMAIN node_health \cup Nodes |->
                               IF n \in Nodes THEN probe_health(n, outcome[n])
                               ELSE node_health[n]]
         /\ observations' = [n \in Nodes |->
                                Append(observations[n], outcome[n] = "Ok")]


(***************************************************************************)
(* Connection::send_request (connection.rs:245-276) call after call on one *)
(* connection, with the server answering when it likes.  The requests are  *)
(* numbered in the order they are written.                                 *)
(***************************************************************************)
NoReply == 0 - 1

ExchangeReturned(res, request, reply_to) ==
    [res |-> res, request |-> request, reply_to |-> reply_to]

\* receive_message (connection.rs:240-242) returns the next frame on the
\* socket, whichever request it is the reply to
next_frame(frames, request) == Head(frames)

\* send_message(request) (connection.rs:264): the request is written, or
\* the write fails and the call returns the error
WriteRequest ==
    /\ exch_pc = "idle"
    /\ exch_sent < MaxRequests
    /\ \/ /\ exch_sent' = exch_sent + 1
          /\ unanswered' = Append(unanswered, exch_sent + 1)
          /\ exch_pc' = "waiting"
          /\ UNCHANGED << unread, exch_ret >>
       \/ /\ exch_ret' = ExchangeReturned("NetworkError", exch_sent + 1, NoReply)
          /\ UNCHANGED << exch_pc, exch_sent, unanswered, unread >>

\* the server answers the oldest request it has not answered
ServerAnswers ==
    /\ unanswered # << >>
    /\ unread' = Append(unread, Head(unanswered))
    /\ unanswered' = Tail(unanswered)
    /\ UNCHANGED << exch_pc, exch_sent, exch_ret >>

\* timeout(.., receive_message()) completes with a frame
\* (connection.rs:267-271)
ReceiveReply ==
    /\ exch_pc = "waiting"
    /\ unread # << >>
    /\ exch_ret' = ExchangeReturned("Ok", exch_sent, next_frame(unread, exch_sent))
    /\ unread' = Tail(unread)
    /\ exch_pc' = "idle"
    /\ UNCHANGED << exch_sent, unanswered >>

\* no frame arrived within timeout_ms: TimeoutError (connection.rs:272-275)
ReplyTimeout ==
    /\ exch_pc = "waiting"
    /\ unread = << >>
    /\ exch_ret' = ExchangeReturned("TimeoutError", exch_sent, NoReply)
    /\ exch_pc' = "idle"
    /\ UNCHANGED << exch_sent, unanswered, unread >>

\* a connection on which nothing was sent
ExchangeNew ==
    /\ exch_pc = "idle"
    /\ exch_sent = 0
    /\ unanswered = << >>
    /\ unread = << >>
    /\ exch_ret = ExchangeReturned("none", 0, NoReply)


(***************************************************************************)
(* The calls of AuthenticationManager seen from a logout (auth.rs:183-278).*)
(***************************************************************************)
\* a call that can store a token starts: a logout that returned before
\* no longer stands
CallStarts == logout_stands' = FALSE

\* a call goes on, or a logout starts
CallGoesOn == logout_stands' = logout_stands

\* logout returns Ok (auth.rs:277)
LogoutReturns == logout_stands' = TRUE

\* no logout has returned
NoLogout == logout_stands = FALSE

\* the components added last are not in use
NoExt == NoData /\ NoRead /\ SeqNew /\ ExchangeNew /\ NoLogout

\* none of the components above is in use
NoSdk == NoProto /\ NoFeatures /\ HealthNew /\ DisconnectNew /\ NoWait /\ BeginNew /\ NoExt

(***************************************************************************)
(* The Transaction specification.                                          *)
(***************************************************************************)
\* the Transaction object and its connection, as the operators take it
Txn ==
    [is_committed |-> is_committed, wire |-> wire, stream |-> stream,
     rollback_attempts |-> rollback_attempts, accepted |-> accepted,
     rollback_reply |-> rollback_reply]

NotDropped == [done |-> FALSE, active |-> FALSE, warned |-> FALSE, rb |-> 0, sent |-> 0]

NoCall ==
    [op |-> "new", active |-> TRUE, res |-> OkRes, path |-> "success",
     orig |-> OkRes, rb |-> 0, sent |-> 0]

\* Transaction::new (transaction.rs:129-140), called by
\* DataClient::begin_transaction after the Begin exchange succeeded
\* (data_client.rs:520-540)
TxnInit ==
    /\ transaction_id \in TxnIds
    /\ is_committed = FALSE
    /\ alive = TRUE
    /\ wire = << [kind |-> "Begin", txn |-> transaction_id] >>
    /\ stream = << >>
    /\ rollback_attempts = 0
    /\ accepted = {}
    /\ rollback_reply = "none"
    /\ ret = NoCall
    /\ calls = 0
    /\ dropped = NotDropped

\* the fields after a call that returned r
Returned(op, r) ==
    /\ is_committed' = r.t.is_committed
    /\ wire' = r.t.wire
    /\ stream' = r.t.stream
    /\ rollback_attempts' = r.t.rollback_attempts
    /\ accepted' = r.t.accepted
    /\ rollback_reply' = r.t.rollback_reply
    /\ ret' = [op |-> op, active |-> ~is_committed, res |-> r.res,
               path |-> r.path, orig |-> r.orig,
               rb |-> r.t.rollback_attempts - rollback_attempts,
               sent |-> Len(r.t.wire) - Len(wire)]
    /\ calls' = calls + 1
    /\ UNCHANGED << transaction_id, poolVars, retryVars, authVars, codecVars, sdkVars >>

\* the Transaction value t goes out of scope
Dropped(t) ==
    LET d == drop(t) IN
    /\ alive' = FALSE
    /\ dropped' = [done |-> TRUE, active |-> ~t.is_committed, warned |-> d.warned,
                   rb |-> d.t.rollback_attempts - t.rollback_attempts,
                   sent |-> Len(d.t.wire) - Len(t.wire)]

\* txn.execute(sql) / txn.execute_with_params(sql, params)
Execute ==
    /\ alive /\ calls < MaxCalls
    /\ \E r \in execute_with_params(Txn, transaction_id) : Returned("execute", r)
    /\ UNCHANGED << alive, dropped >>

\* txn.query(sql) / txn.query_with_params(sql, params)
Query ==
    /\ alive /\ calls < MaxCalls
    /\ \E r \in query_with_params(Txn, transaction_id) : Returned("query", r)
    /\ UNCHANGED << alive, dropped >>

\* txn.commit(): takes the transaction by value, which is dropped on return
Commit ==
    /\ alive /\ calls < MaxCalls
    /\ \E r \in commit(Txn, transaction_id) :
           Returned("commit", r) /\ Dropped(r.t)

\* txn.rollback(): takes the transaction by value, which is dropped on return
Rollback ==
    /\ alive /\ calls < MaxCalls
    /\ \E r \in rollback(Txn, transaction_id) :
           Returned("rollback", r) /\ Dropped(r.t)

\* the transaction goes out of scope without commit() or rollback()
DropTransaction ==
    /\ alive
    /\ Dropped(Txn)
    /\ UNCHANGED << transaction_id, is_committed, wire, stream, rollback_attempts,
                    accepted, rollback_reply, ret, calls, poolVars, retryVars,
                    authVars, codecVars, sdkVars >>

Init == TxnInit /\ PoolNew /\ NoRetry /\ NoAuth /\ NoCodec /\ NoSdk

Next == Execute \/ Query \/ Commit \/ Rollback \/ DropTransaction

Spec == Init /\ [][Next]_vars

(***************************************************************************)
(* The ConnectionPool specification: the callers run get_connection and    *)
(* return_connection concurrently; no transaction is involved.             *)
(***************************************************************************)
NoTransaction ==
    /\ transaction_id = 0
    /\ is_committed = FALSE
    /\ alive = FALSE
    /\ wire = << >>
    /\ stream = << >>
    /\ rollback_attempts = 0
    /\ accepted = {}
    /\ rollback_reply = "none"
    /\ ret = NoCall
    /\ calls = 0
    /\ dropped = NotDropped

PoolInit == PoolNew /\ NoTransaction /\ NoRetry /\ NoAuth /\ NoCodec /\ NoSdk

PoolNext ==
    \/ \E c \in Callers : GetConnection(c) /\ UNCHANGED << txnVars, retryVars, authVars, codecVars, sdkVars >>
    \/ \E c \in Callers : CreateConnection(c) /\ UNCHANGED << txnVars, retryVars, authVars, codecVars, sdkVars >>
    \/ \E c \in Callers : ReturnConnection(c) /\ UNCHANGED << txnVars, retryVars, authVars, codecVars, sdkVars >>
    \/ Tick /\ UNCHANGED << txnVars, retryVars, authVars, codecVars, sdkVars >>

PoolSpec == PoolInit /\ [][PoolNext]_vars

(***************************************************************************)
(* The retry specification: one call of execute_with_retry, for every      *)
(* configuration and every sequence of results of the operation.           *)
(***************************************************************************)
RetryInit == RetryStart /\ PoolNew /\ NoTransaction /\ NoAuth /\ NoCodec /\ NoSdk

RetryNext == Attempt /\ UNCHANGED << txnVars, poolVars, authVars, codecVars, sdkVars >>

RetrySpec == RetryInit /\ [][RetryNext]_vars

(***************************************************************************)
(* The authentication specification: the tasks call the manager            *)
(* concurrently; a step is what a call does under one lock.                *)
(***************************************************************************)
AuthInit == AuthNew /\ PoolNew /\ NoTransaction /\ NoRetry /\ NoCodec /\ NoSdk

AuthNext ==
    \/ \E c \in Tasks : Authenticate(c) /\ UNCHANGED << txnVars, poolVars, retryVars, codecVars, sdkVars >>
    \/ \E c \in Tasks : GetValidToken(c) /\ UNCHANGED << txnVars, poolVars, retryVars, codecVars, sdkVars >>
    \/ \E c \in Tasks : RefreshToken(c) /\ UNCHANGED << txnVars, poolVars, retryVars, codecVars, sdkVars >>
    \/ \E c \in Tasks : Reauthenticate(c) /\ UNCHANGED << txnVars, poolVars, retryVars, codecVars, sdkVars >>
    \/ \E c \in Tasks : RefreshBuild(c) /\ UNCHANGED << txnVars, poolVars, retryVars, codecVars, sdkVars >>
    \/ \E c \in Tasks : StoreToken(c) /\ UNCHANGED << txnVars, poolVars, retryVars, codecVars, sdkVars >>
    \/ \E c \in Tasks : Logout(c) /\ UNCHANGED << txnVars, poolVars, retryVars, codecVars, sdkVars >>
    \/ \E c \in Tasks : ClearToken(c) /\ UNCHANGED << txnVars, poolVars, retryVars, codecVars, sdkVars >>
    \/ AuthTick /\ UNCHANGED << txnVars, poolVars, retryVars, codecVars, sdkVars >>

AuthSpec == AuthInit /\ [][AuthNext]_vars

(***************************************************************************)
(* The connection specification: task 1 owns a Connection, authenticates   *)
(* it with the manager, asks the manager for valid tokens and sends        *)
(* authenticated requests.                                                 *)
(***************************************************************************)
ConnInit == AuthNew /\ PoolNew /\ NoTransaction /\ NoRetry /\ NoCodec /\ NoSdk

ConnNext ==
    \/ ConnectionAuthenticate(1) /\ UNCHANGED << txnVars, poolVars, retryVars, codecVars, sdkVars >>
    \/ GetValidToken(1) /\ UNCHANGED << txnVars, poolVars, retryVars, codecVars, sdkVars >>
    \/ Reauthenticate(1) /\ UNCHANGED << txnVars, poolVars, retryVars, codecVars, sdkVars >>
    \/ StoreToken(1) /\ UNCHANGED << txnVars, poolVars, retryVars, codecVars, sdkVars >>
    \/ SendAuthenticatedRequest /\ UNCHANGED << txnVars, poolVars, retryVars, codecVars, sdkVars >>
    \/ AuthTick /\ UNCHANGED << txnVars, poolVars, retryVars, codecVars, sdkVars >>

ConnSpec == ConnInit /\ [][ConnNext]_vars

(***************************************************************************)
(* The codec specification: one message goes through the codec.            *)
(***************************************************************************)
CodecInit == CodecNew /\ PoolNew /\ NoTransaction /\ NoRetry /\ NoAuth /\ NoSdk

CodecNext ==
    \/ Encode /\ UNCHANGED << txnVars, poolVars, retryVars, authVars, sdkVars >>
    \/ EncodeWithLength /\ UNCHANGED << txnVars, poolVars, retryVars, authVars, sdkVars >>
    \/ Corrupt /\ UNCHANGED << txnVars, poolVars, retryVars, authVars, sdkVars >>
    \/ Decode /\ UNCHANGED << txnVars, poolVars, retryVars, authVars, sdkVars >>
    \/ ReadMessage /\ UNCHANGED << txnVars, poolVars, retryVars, authVars, sdkVars >>

CodecSpec == CodecInit /\ [][CodecNext]_vars

(***************************************************************************)
(* The protocol specification: select_protocol on every pair of lists.     *)
(***************************************************************************)
ProtoInit ==
    ProtoNew /\ NoFeatures /\ HealthNew /\ DisconnectNew /\ NoWait /\ BeginNew /\ NoExt /\ PoolNew /\ NoTransaction /\ NoRetry /\ NoAuth /\ NoCodec

ProtoNext ==
    SelectProtocol
    /\ UNCHANGED << txnVars, poolVars, retryVars, authVars, codecVars, featVars, healthVars, discVars, waitVars, beginVars, extVars >>

ProtoSpec == ProtoInit /\ [][ProtoNext]_vars

(***************************************************************************)
(* The feature specification: a new connection negotiates features, with   *)
(* any reply of the server.                                                *)
(***************************************************************************)
FeatureInit ==
    FeatureNew /\ NoProto /\ HealthNew /\ DisconnectNew /\ NoWait /\ BeginNew /\ NoExt /\ PoolNew /\ NoTransaction /\ NoRetry /\ NoAuth /\ NoCodec

FeatureNext ==
    NegotiateFeatures
    /\ UNCHANGED << txnVars, poolVars, retryVars, authVars, codecVars, protoVars, healthVars, discVars, waitVars, beginVars, extVars >>

FeatureSpec == FeatureInit /\ [][FeatureNext]_vars

(***************************************************************************)
(* The health specification: the health of every node is reported, in any  *)
(* order.                                                                  *)
(***************************************************************************)
HealthInit ==
    HealthNew /\ NoProto /\ NoFeatures /\ DisconnectNew /\ NoWait /\ BeginNew /\ NoExt
    /\ PoolNew /\ NoTransaction /\ NoRetry /\ NoAuth /\ NoCodec

HealthNext ==
    \/ \E n \in Nodes : MarkNodeHealthy(n)
          /\ UNCHANGED << txnVars, poolVars, retryVars, authVars, codecVars,
                          protoVars, featVars, discVars, waitVars, beginVars, extVars >>
    \/ \E n \in Nodes : MarkNodeUnhealthy(n)
          /\ UNCHANGED << txnVars, poolVars, retryVars, authVars, codecVars,
                          protoVars, featVars, discVars, waitVars, beginVars, extVars >>

HealthSpec == HealthInit /\ [][HealthNext]_vars

(***************************************************************************)
(* The disconnect specification: a connected client is disconnected while  *)
(* the other callers of the pool acquire and return connections and time   *)
(* passes.                                                                 *)
(***************************************************************************)
DisconnectInit ==
    PoolConnected /\ AuthConnected /\ HealthTracked /\ DisconnectNew
    /\ NoProto /\ NoFeatures /\ NoWait /\ BeginNew /\ NoExt
    /\ NoTransaction /\ NoRetry /\ NoCodec

DisconnectNext ==
    \/ DisconnectAcquire
          /\ UNCHANGED << txnVars, retryVars, authVars, codecVars, protoVars, featVars, waitVars, beginVars, extVars >>
    \/ DisconnectCreate
          /\ UNCHANGED << txnVars, retryVars, authVars, codecVars, protoVars, featVars, waitVars, beginVars, extVars >>
    \/ DisconnectLogout
          /\ UNCHANGED << txnVars, poolVars, retryVars, codecVars, protoVars, featVars, waitVars, beginVars, extVars >>
    \/ DisconnectClear
          /\ UNCHANGED << txnVars, poolVars, retryVars, codecVars, protoVars, featVars, waitVars, beginVars, extVars >>
    \/ DisconnectReturn
          /\ UNCHANGED << txnVars, retryVars, authVars, codecVars, protoVars, featVars, waitVars, beginVars, extVars >>
    \/ DisconnectClose
          /\ UNCHANGED << txnVars, retryVars, authVars, codecVars, protoVars, featVars, waitVars, beginVars, extVars >>
    \/ \E c \in Callers \ {Closer} : GetConnection(c)
          /\ UNCHANGED << txnVars, retryVars, authVars, codecVars, sdkVars >>
    \/ \E c \in Callers \ {Closer} : CreateConnection(c)
          /\ UNCHANGED << txnVars, retryVars, authVars, codecVars, sdkVars >>
    \/ \E c \in Callers \ {Closer} : ReturnConnection(c)
          /\ UNCHANGED << txnVars, retryVars, authVars, codecVars, sdkVars >>
    \/ Tick /\ UNCHANGED << txnVars, retryVars, authVars, codecVars, sdkVars >>

DisconnectSpec == DisconnectInit /\ [][DisconnectNext]_vars

(***************************************************************************)
(* The wait specification: one operation waits on the network.  The        *)
(* runtime runs the task, lets the time of an armed timer pass, fires the  *)
(* timer and completes a write that can proceed; a peer that answers does  *)
(* so eventually.  Nothing is assumed of a peer that does not.             *)
(***************************************************************************)
WaitInit ==
    WaitNew /\ NoProto /\ NoFeatures /\ HealthNew /\ DisconnectNew /\ BeginNew /\ NoExt
    /\ PoolNew /\ NoTransaction /\ NoRetry /\ NoAuth /\ NoCodec

WaitOthersUnchanged ==
    UNCHANGED << txnVars, poolVars, retryVars, authVars, codecVars,
                 protoVars, featVars, healthVars, discVars, beginVars, extVars >>

WaitNext ==
    \/ WaitStart /\ WaitOthersUnchanged
    \/ WaitTick /\ WaitOthersUnchanged
    \/ TimerFires /\ WaitOthersUnchanged
    \/ DialAnswered /\ WaitOthersUnchanged
    \/ WriteCompletes /\ WaitOthersUnchanged
    \/ PeerActs /\ WaitOthersUnchanged

WaitSpec ==
    /\ WaitInit /\ [][WaitNext]_vars
    /\ WF_vars(WaitStart /\ WaitOthersUnchanged)
    /\ WF_vars(WaitTick /\ WaitOthersUnchanged)
    /\ WF_vars(TimerFires /\ WaitOthersUnchanged)
    /\ WF_vars(DialAnswered /\ WaitOthersUnchanged)
    /\ WF_vars(WriteCompletes /\ WaitOthersUnchanged)
    /\ WF_vars(PeerActs /\ WaitOthersUnchanged)

(***************************************************************************)
(* The begin specification: the tasks begin transactions on one client     *)
(* while the clock advances.                                               *)
(***************************************************************************)
BeginInit ==
    BeginNew /\ NoProto /\ NoFeatures /\ HealthNew /\ DisconnectNew /\ NoWait /\ NoExt
    /\ PoolNew /\ NoTransaction /\ NoRetry /\ NoAuth /\ NoCodec

BeginOthersUnchanged ==
    UNCHANGED << txnVars, poolVars, retryVars, authVars, codecVars,
                 protoVars, featVars, healthVars, discVars, waitVars, extVars >>

BeginNext ==
    \/ \E c \in Tasks : BeginTransaction(c) /\ BeginOthersUnchanged
    \/ \E c \in Tasks : BeginReplied(c) /\ BeginOthersUnchanged
    \/ BeginTick /\ BeginOthersUnchanged

BeginSpec == BeginInit /\ [][BeginNext]_vars

(***************************************************************************)
(* The data specification: the callers run operations of the DataClient    *)
(* on one pool while time passes.                                          *)
(***************************************************************************)
DataInit ==
    PoolNew /\ NoData /\ NoProto /\ NoFeatures /\ HealthNew /\ DisconnectNew
    /\ NoWait /\ BeginNew /\ NoTransaction /\ NoRetry /\ NoAuth /\ NoCodec
    /\ NoRead /\ SeqNew /\ ExchangeNew /\ NoLogout

DataOthersUnchanged ==
    UNCHANGED << txnVars, retryVars, authVars, codecVars, protoVars, featVars,
                 healthVars, discVars, waitVars, beginVars, readVars, seqVars,
                 exchVars, raceVars >>

DataNext ==
    \/ \E c \in Callers : DataAcquire(c) /\ DataOthersUnchanged
    \/ \E c \in Callers : DataCreate(c) /\ DataOthersUnchanged
    \/ \E c \in Callers : DataFinish(c) /\ DataOthersUnchanged
    \/ \E c \in Callers : TransactionEnds(c) /\ DataOthersUnchanged
    \/ Tick /\ UNCHANGED << data_op, data_ret >> /\ DataOthersUnchanged

DataSpec == DataInit /\ [][DataNext]_vars

(***************************************************************************)
(* The reader specification: a codec reads one message from a reader.      *)
(***************************************************************************)
ReaderInit ==
    ReaderNew /\ NoData /\ NoProto /\ NoFeatures /\ HealthNew /\ DisconnectNew
    /\ NoWait /\ BeginNew /\ PoolNew /\ NoTransaction /\ NoRetry /\ NoAuth
    /\ SeqNew /\ ExchangeNew /\ NoLogout

ReaderNext ==
    ReadFromReader
    /\ UNCHANGED << txnVars, poolVars, retryVars, authVars, protoVars, featVars,
                    healthVars, discVars, waitVars, beginVars, dataVars, seqVars,
                    exchVars, raceVars >>

ReaderSpec == ReaderInit /\ [][ReaderNext]_vars

(***************************************************************************)
(* The sequence specification: the send paths write on one pooled          *)
(* connection, and health checks on connections of their own.              *)
(***************************************************************************)
SeqInit ==
    SeqNew /\ NoData /\ NoRead /\ NoProto /\ NoFeatures /\ HealthNew
    /\ DisconnectNew /\ NoWait /\ BeginNew /\ PoolNew /\ NoTransaction
    /\ NoRetry /\ NoAuth /\ NoCodec /\ ExchangeNew /\ NoLogout

SeqOthersUnchanged ==
    UNCHANGED << txnVars, poolVars, retryVars, authVars, codecVars, protoVars,
                 featVars, healthVars, discVars, waitVars, beginVars,
                 dataVars, readVars, exchVars, raceVars >>

SeqNext ==
    \/ SendRequest /\ SeqOthersUnchanged
    \/ NegotiateSend /\ SeqOthersUnchanged
    \/ QueryStreamSend /\ SeqOthersUnchanged
    \/ HealthPing /\ SeqOthersUnchanged

SeqSpec == SeqInit /\ [][SeqNext]_vars

(***************************************************************************)
(* The probe specification: health checks run on one ConnectionManager     *)
(* whose nodes are also reported healthy and unhealthy by its users.       *)
(***************************************************************************)
ProbeInit ==
    HealthNew /\ NoProto /\ NoFeatures /\ DisconnectNew /\ NoWait /\ BeginNew
    /\ NoExt /\ PoolNew /\ NoTransaction /\ NoRetry /\ NoAuth /\ NoCodec

ProbeOthersUnchanged ==
    UNCHANGED << txnVars, poolVars, retryVars, authVars, codecVars,
                 protoVars, featVars, discVars, waitVars, beginVars, extVars >>

ProbeNext ==
    \/ HealthCheckAllNodes /\ ProbeOthersUnchanged
    \/ \E n \in Nodes : MarkNodeHealthy(n) /\ ProbeOthersUnchanged
    \/ \E n \in Nodes : MarkNodeUnhealthy(n) /\ ProbeOthersUnchanged

ProbeSpec == ProbeInit /\ [][ProbeNext]_vars

(***************************************************************************)
(* The exchange specification: send_request calls follow one another on    *)
(* one connection.                                                         *)
(***************************************************************************)
ExchangeInit ==
    ExchangeNew /\ NoData /\ NoRead /\ SeqNew /\ NoProto /\ NoFeatures
    /\ HealthNew /\ DisconnectNew /\ NoWait /\ BeginNew /\ PoolNew
    /\ NoTransaction /\ NoRetry /\ NoAuth /\ NoCodec /\ NoLogout

ExchangeOthersUnchanged ==
    UNCHANGED << txnVars, poolVars, retryVars, authVars, codecVars, protoVars,
                 featVars, healthVars, discVars, waitVars, beginVars,
                 dataVars, readVars, seqVars, raceVars >>

ExchangeNext ==
    \/ WriteRequest /\ ExchangeOthersUnchanged
    \/ ServerAnswers /\ ExchangeOthersUnchanged
    \/ ReceiveReply /\ ExchangeOthersUnchanged
    \/ ReplyTimeout /\ ExchangeOthersUnchanged

ExchangeSpec == ExchangeInit /\ [][ExchangeNext]_vars

(***************************************************************************)
(* The logout specification: the tasks of the authentication               *)
(* specification, with the history of logout kept.                         *)
(***************************************************************************)
LogoutInit ==
    AuthNew /\ NoLogout /\ NoData /\ NoRead /\ SeqNew /\ ExchangeNew
    /\ NoProto /\ NoFeatures /\ HealthNew /\ DisconnectNew /\ NoWait
    /\ BeginNew /\ PoolNew /\ NoTransaction /\ NoRetry /\ NoCodec

LogoutOthersUnchanged ==
    UNCHANGED << txnVars, poolVars, retryVars, codecVars, protoVars, featVars,
                 healthVars, discVars, waitVars, beginVars,
                 dataVars, readVars, seqVars, exchVars >>

LogoutNext ==
    \/ \E c \in Tasks : Authenticate(c) /\ CallStarts /\ LogoutOthersUnchanged
    \/ \E c \in Tasks : GetValidToken(c) /\ CallStarts /\ LogoutOthersUnchanged
    \/ \E c \in Tasks : RefreshToken(c) /\ CallStarts /\ LogoutOthersUnchanged
    \/ \E c \in Tasks : Reauthenticate(c) /\ CallGoesOn /\ LogoutOthersUnchanged
    \/ \E c \in Tasks : RefreshBuild(c) /\ CallGoesOn /\ LogoutOthersUnchanged
    \/ \E c \in Tasks : StoreToken(c) /\ CallGoesOn /\ LogoutOthersUnchanged
    \/ \E c \in Tasks : Logout(c) /\ CallGoesOn /\ LogoutOthersUnchanged
    \/ \E c \in Tasks : ClearToken(c) /\ LogoutReturns /\ LogoutOthersUnchanged
    \/ AuthTick /\ CallGoesOn /\ LogoutOthersUnchanged

LogoutSpec == LogoutInit /\ [][LogoutNext]_vars

(***************************************************************************)
(* Properties of the Transaction (checked under Spec).                     *)
(***************************************************************************)
\* the requests written after position n of the wire log
SentAfter(n) == {wire[i].kind : i \in (n + 1)..Len(wire)}

\* C1: at most one outcome per transaction: no Rollback is written after
\* CommitSuccess was accepted, no Commit after RollbackSuccess was accepted,
\* and the two are never both accepted.
C1_AtMostOneOutcome ==
    /\ \A a \in accepted :
          /\ a.resp = "CommitSuccess" => "Rollback" \notin SentAfter(a.at)
          /\ a.resp = "RollbackSuccess" => "Commit" \notin SentAfter(a.at)
    /\ Cardinality({a.resp : a \in accepted}) <= 1

\* commit() was called on a transaction whose RollbackSuccess had been accepted
C1_Witness ==
    /\ ret.op = "commit"
    /\ ~ret.active
    /\ \E a \in accepted : a.resp = "RollbackSuccess"

\* C2: a Resolved transaction stays Resolved, and every later execute, query
\* or commit on it returns an error and writes nothing on the wire.
C2_ResolvedIsTerminal ==
    [][is_committed =>
         /\ is_committed'
         /\ (calls' = calls + 1 /\ ret'.op \in {"execute", "query", "commit"})
              => (IsErr(ret'.res) /\ wire' = wire)]_vars

\* execute() was called on a Resolved transaction
C2_Witness ==
    /\ ret.op = "execute"
    /\ ~ret.active
    /\ is_committed

\* C3: rollback() on a Resolved transaction returns Ok and starts no
\* Rollback exchange.
C3_RollbackIdempotent ==
    [][(is_committed /\ calls' = calls + 1 /\ ret'.op = "rollback")
         => /\ ret'.res = OkRes
            /\ wire' = wire
            /\ rollback_attempts' = rollback_attempts]_vars

\* rollback() was called on a transaction an automatic rollback had resolved
C3_Witness ==
    /\ ret.op = "rollback"
    /\ ~ret.active
    /\ ret.res = OkRes
    /\ \E a \in accepted : a.resp = "RollbackSuccess"

\* C4: when the exchange of execute/query fails at transport level or the
\* response carries a server error, a Rollback exchange is started before the
\* call returns and the call returns the error of the failed exchange.
C4_AutomaticRollback ==
    (ret.op \in {"execute", "query"} /\ ret.path \in {"transport", "server_error"})
        => (ret.rb >= 1 /\ ret.res = ret.orig)

\* an execute got a server error and the automatic rollback failed as well
C4_Witness ==
    /\ ret.op = "execute"
    /\ ret.path = "server_error"
    /\ ret.rb = 1
    /\ rollback_reply \in {"TimeoutError", "Error"}

\* C5 as claimed: after an execute on an Active transaction returned the
\* server's error, the transaction is Resolved whatever the automatic
\* rollback exchange gave, and the caller got the server's error.
C5_ResolvedAfterServerError ==
    (ret.op = "execute" /\ ret.active /\ ret.path = "server_error")
        => /\ is_committed
           /\ ret.res = ret.orig
           /\ ret.res.details # AlreadyResolved

\* C6 as claimed: a Rollback exchange answered by RollbackSuccess or by an
\* Error response leaves the transaction Resolved.
C6_RollbackReplyResolves ==
    rollback_reply \in {"RollbackSuccess", "Error"} => is_committed

\* C7: commit on an Active transaction: CommitSuccess resolves it and returns
\* Ok; a server Error starts a rollback and returns TransactionAborted with
\* this transaction's id and the server's message; a transport failure
\* starts a rollback and returns the transport error unchanged.
C7_CommitOutcomes ==
    (ret.op = "commit" /\ ret.active) =>
        /\ ret.path = "success" =>
              /\ is_committed
              /\ ret.res = OkRes
              /\ ret.rb = 0
        /\ ret.path = "server_error" =>
              /\ ret.rb >= 1
              /\ ret.res = TransactionAborted(transaction_id, ret.orig.details)
        /\ ret.path = "transport" =>
              /\ ret.rb >= 1
              /\ ret.res = ret.orig

\* a commit was refused by the server and came back as TransactionAborted
C7_Witness ==
    /\ ret.op = "commit"
    /\ ret.active
    /\ ret.path = "server_error"
    /\ ret.res.kind = "TransactionAborted"
    /\ ret.res.details \in Msgs

\* C8 as claimed: every error returned by execute, query or commit on an
\* Active transaction comes after a rollback attempt.
C8_RollbackBeforeEveryError ==
    (ret.op \in {"execute", "query", "commit"} /\ ret.active /\ IsErr(ret.res))
        => ret.rb >= 1

\* C9 as claimed: a Transaction dropped while Active has a Rollback
\* attempted on its connection by the drop.
C9_RollbackOnDrop ==
    (dropped.done /\ dropped.active) => dropped.rb >= 1

(***************************************************************************)
(* Properties of the ConnectionPool (checked under PoolSpec).              *)
(***************************************************************************)
\* C10 as claimed: total_connections never exceeds max_connections.
C10_TotalWithinMax == total_connections <= max_connections

\* C11 as claimed: no more than max_connections callers hold a connection at
\* the same time: once max_connections are checked out and none is returned,
\* a further get_connection fails and dials no host.
C11_ExhaustedBeyondMax ==
    Cardinality({c \in Callers : pc[c] = "holding"}) <= max_connections

\* C12: a connection that get_connection hands out from the available set
\* has, at that moment, age at most max_lifetime and idle time at most
\* idle_timeout; and whenever get_connection has gone through the available
\* set, every connection it left there is within both limits.
C12_LiveAtHandOut ==
    [][/\ \A c \in Callers :
            (pc[c] = "idle" /\ pc'[c] = "holding") =>
                \E i \in 1..Len(available) :
                    /\ available[i].id = held'[c].id
                    /\ now - available[i].created_at <= max_lifetime_ms
                    /\ now - available[i].last_used <= idle_timeout_ms
       /\ (\/ Len(available') < Len(available)
           \/ \E c \in Callers : pc[c] = "idle" /\ pc'[c] # "idle")
            => \A i \in 1..Len(available') :
                    /\ now - available'[i].created_at <= max_lifetime_ms
                    /\ now - available'[i].last_used <= idle_timeout_ms]_vars

\* a caller holds a connection that was handed out from the available set
\* some time after it was created
C12_Witness ==
    \E c \in Callers :
        /\ pc[c] = "holding"
        /\ held[c].last_used > held[c].created_at

(***************************************************************************)
(* Properties of execute_with_retry (checked under RetrySpec).             *)
(***************************************************************************)
\* C13: the operation is invoked at most max_retries + 1 times, the call
\* has returned once it was invoked that often, and an operation that failed
\* retryably on every attempt was invoked exactly max_retries + 1 times.
C13_AttemptsBounded ==
    /\ attempts <= retry_config.max_retries + 1
    /\ attempts = retry_config.max_retries + 1 => retry_pc = "done"
    /\ (/\ retry_pc = "done"
        /\ Len(errs) = attempts
        /\ \A i \in 1..Len(errs) :
              errs[i].kind \in {"ConnectionTimeout", "ConnectionLost",
                                "NetworkError", "TimeoutError"})
         => attempts = retry_config.max_retries + 1

\* a call with max_retries >= 2 returned after the operation had failed
\* retryably on every attempt
C13_Witness ==
    /\ retry_pc = "done"
    /\ retry_config.max_retries >= 2
    /\ Len(errs) = attempts
    /\ attempts = retry_config.max_retries + 1
    /\ \A i \in 1..Len(errs) : is_retryable(errs[i].kind)

\* C14 as claimed: the sleep before the k-th retry is
\* min(initial_backoff * multiplier^(k-1), max_backoff), and no sleep is
\* longer than max_backoff.
C14_BackoffFormula ==
    LET RECURSIVE Pow(_, _)
        Pow(b, e) == IF e = 0 THEN 1 ELSE b * Pow(b, e - 1)
        m == retry_config.backoff_multiplier
    IN  \A k \in 1..Len(sleeps) :
            /\ sleeps[k] <= retry_config.max_backoff_ms
            /\ sleeps[k] =
                 Min((retry_config.initial_backoff_ms * Pow(m.num, k - 1))
                         \div Pow(m.den, k - 1),
                     retry_config.max_backoff_ms)

\* C15: when the call returns an error, every attempt made has failed and
\* the error returned is the one of the last attempt; if all the errors were
\* retryable that attempt is number max_retries + 1.
C15_LastErrorReturned ==
    (retry_pc = "done" /\ IsErr(retry_result)) =>
        /\ Len(errs) = attempts
        /\ retry_result = errs[attempts]
        /\ (\A i \in 1..Len(errs) : is_retryable(errs[i].kind))
              => attempts = retry_config.max_retries + 1

\* the call returned an error after several attempts whose first and last
\* errors differ
C15_Witness ==
    /\ retry_pc = "done"
    /\ IsErr(retry_result)
    /\ attempts >= 2
    /\ errs[1] # errs[attempts]
    /\ retry_result = errs[attempts]

\* C16: an attempt that fails with an error other than ConnectionTimeout,
\* ConnectionLost, NetworkError or TimeoutError makes the call return that
\* error at once, with no sleep, whatever budget remains; and only errors
\* of these four kinds are followed by a sleep.
C16_OnlyRetryableRetried ==
    [][(attempts' = attempts + 1 /\ Len(errs') = Len(errs) + 1) =>
          LET e == errs'[Len(errs')] IN
          /\ e.kind \notin {"ConnectionTimeout", "ConnectionLost",
                            "NetworkError", "TimeoutError"}
               => /\ retry_pc' = "done"
                  /\ retry_result' = e
                  /\ sleeps' = sleeps
                  /\ retries' = retries
          /\ sleeps' # sleeps
               => e.kind \in {"ConnectionTimeout", "ConnectionLost",
                              "NetworkError", "TimeoutError"}]_vars

\* after a retry, a checksum mismatch was returned while budget remained
C16_Witness ==
    /\ retry_pc = "done"
    /\ retry_result.kind = "ChecksumMismatch"
    /\ retries >= 1
    /\ retries < retry_config.max_retries

\* C17 as claimed: every connection error is classified retryable, and an
\* attempt that fails with ConnectionRefused while budget remains is
\* followed by a sleep and another attempt.
C17_RefusedIsRetried ==
    [][/\ \A k \in ErrorKinds : is_connection_error(k) => is_retryable(k)
       /\ (/\ attempts' = attempts + 1
           /\ Len(errs') = Len(errs) + 1
           /\ errs'[Len(errs')].kind = "ConnectionRefused"
           /\ retries < retry_config.max_retries)
            => /\ retry_pc' = "running"
               /\ sleeps' = Append(sleeps, delay)]_vars

\* C17 amended: of the connection errors, ConnectionTimeout and
\* ConnectionLost are retried while budget remains; ConnectionRefused is a
\* connection error that is not retryable and ends the call at once.
C17_RefusedNotRetried ==
    [][/\ {k \in ErrorKinds : is_connection_error(k)}
            = {"ConnectionTimeout", "ConnectionRefused", "ConnectionLost"}
       /\ {k \in ErrorKinds : is_connection_error(k) /\ is_retryable(k)}
            = {"ConnectionTimeout", "ConnectionLost"}
       /\ (attempts' = attempts + 1 /\ Len(errs') = Len(errs) + 1) =>
            LET e == errs'[Len(errs')] IN
            /\ (e.kind \in {"ConnectionTimeout", "ConnectionLost"}
                /\ retries < retry_config.max_retries)
                 => /\ retry_pc' = "running"
                    /\ sleeps' = Append(sleeps, delay)
            /\ e.kind = "ConnectionRefused"
                 => /\ retry_pc' = "done"
                    /\ retry_result' = e
                    /\ sleeps' = sleeps]_vars

\* a refused connection ended the call on its first attempt although
\* retries were allowed
C17_Witness ==
    /\ retry_pc = "done"
    /\ retry_result.kind = "ConnectionRefused"
    /\ attempts = 1
    /\ retry_config.max_retries >= 1

(***************************************************************************)
(* Properties of the AuthenticationManager (checked under AuthSpec and     *)
(* ConnSpec).  A token is valid while the clock is before its expiration.  *)
(***************************************************************************)
\* C18 as claimed: with valid credentials, get_valid_token returns the
\* cached token, leaving the cache as it is, only when a token is present
\* and the clock is before its expiration; it goes on to authenticate only
\* when there is no token or the token is expired; and the token it gets
\* by authenticating is stored as current and returned.
C18_CachedOrFresh ==
    [][validate(credentials) = OkRes =>
         /\ (auth_ret' # auth_ret /\ auth_ret'.cached) =>
               /\ token # << >>
               /\ clock < token[1].expiration
               /\ auth_ret'.res = OkRes
               /\ auth_ret'.token = token
               /\ token' = token
         /\ \A c \in Tasks :
               /\ (/\ auth_pc[c] = AuthIdle
                   /\ auth_pc'[c] = [op |-> "get_valid_token", at |-> "authenticate"])
                    => (token = << >> \/ clock >= token[1].expiration)
               /\ (/\ auth_pc[c] = [op |-> "get_valid_token", at |-> "store"]
                   /\ auth_pc'[c] = AuthIdle)
                    => /\ token' = << auth_tmp[c] >>
                       /\ auth_ret'.res = OkRes
                       /\ auth_ret'.token = token']_vars

\* C19 as claimed: a token counts as valid exactly while the clock is
\* strictly before its expiration: get_valid_token returns the cached token
\* only then and re-authenticates otherwise, and send_authenticated_request
\* hands the request on only then and fails with TokenExpired otherwise.
C19_ValidStrictlyBefore ==
    [][/\ (auth_ret' # auth_ret /\ auth_ret'.cached)
            => (token # << >> /\ clock < token[1].expiration)
       /\ (/\ auth_pc[1] = AuthIdle
           /\ auth_pc'[1] = [op |-> "get_valid_token", at |-> "authenticate"])
            => (token = << >> \/ clock >= token[1].expiration)
       /\ (conn_ret' # conn_ret /\ conn_ret' = "sent")
            => (conn_token # << >> /\ clock < conn_token[1].expiration)
       /\ (conn_ret' # conn_ret /\ conn_token # << >>
             /\ clock >= conn_token[1].expiration)
            => conn_ret' = "TokenExpired"]_vars

\* C20 as claimed: with valid credentials refresh_token never fails: when
\* no token is cached it authenticates, stores the new token and returns it.
C20_RefreshWithoutToken ==
    (auth_ret.op = "refresh_token" /\ validate(credentials) = OkRes)
        => (auth_ret.res = OkRes /\ auth_ret.token # << >>)

\* C21: logout called while no token is held returns an authentication
\* error and leaves the cache empty; logout that found a token clears the
\* cache and returns Ok; and from an empty cache get_valid_token never
\* returns a cached token: it authenticates, and what it returns is the
\* newly built token, stored as current.
C21_LogoutClears ==
    [][/\ (auth_ret' # auth_ret /\ auth_ret'.op = "logout" /\ auth_pc' = auth_pc)
            => /\ token = << >>
               /\ token' = << >>
               /\ auth_ret'.res.kind = "AuthenticationFailed"
       /\ \A c \in Tasks :
            /\ (auth_pc[c] = AuthIdle /\ auth_pc'[c].op = "logout")
                 => token # << >>
            /\ (auth_pc[c].op = "logout" /\ auth_pc'[c] = AuthIdle)
                 => /\ token' = << >>
                    /\ auth_ret'.op = "logout"
                    /\ auth_ret'.res = OkRes
            /\ (/\ auth_pc[c] = [op |-> "get_valid_token", at |-> "store"]
                /\ auth_pc'[c] = AuthIdle)
                 => /\ token' = << auth_tmp[c] >>
                    /\ auth_ret'.token = token'
                    /\ ~auth_ret'.cached
       /\ token = << >> => ~(auth_ret' # auth_ret /\ auth_ret'.cached)]_vars

\* a logout that found a token has cleared the cache and returned Ok
C21_Witness ==
    /\ auth_ret.op = "logout"
    /\ auth_ret.res = OkRes
    /\ token = << >>
    /\ clock >= 1

(***************************************************************************)
(* Properties of the MessageCodec (checked under CodecSpec).               *)
(***************************************************************************)
\* C22: decoding the unchanged output of a successful encode succeeds and
\* gives a message equal to the encoded one in every field.
C22_RoundTrip ==
    codec_pc = "decoded" =>
        /\ codec_ret.res = OkRes
        /\ codec_ret.msg.sender = message.sender
        /\ codec_ret.msg.recipient = message.recipient
        /\ codec_ret.msg.sequence_number = message.sequence_number
        /\ codec_ret.msg.timestamp = message.timestamp
        /\ codec_ret.msg.message_type = message.message_type
        /\ codec_ret.msg.payload = message.payload
        /\ codec_ret.msg.checksum = message.checksum

\* a Transaction message with a five-byte payload and a sequence number
\* above 255 came back from decode
C22_Witness ==
    /\ codec_pc = "decoded"
    /\ codec_ret.res = OkRes
    /\ message.message_type = "Transaction"
    /\ message.sequence_number = U64(258)
    /\ message.payload = << 1, 2, 3, 4, 5 >>

\* C23 as claimed: decode returns no message whose stored checksum differs
\* from the checksum of its other fields, a ChecksumMismatch carries the
\* two values, and after a change of one byte of the encoded form decode
\* fails with a deserialization error or a checksum mismatch.
C23_CorruptionDetected ==
    /\ (codec_pc \in {"decoded", "decoded_corrupted"} /\ codec_ret.res = OkRes)
          => codec_ret.msg.checksum = calculate_checksum(codec_ret.msg)
    /\ codec_ret.res.kind = "ChecksumMismatch"
          => codec_ret.expected # codec_ret.actual
    /\ codec_pc = "decoded_corrupted"
          => codec_ret.res.kind \in {"SerializationError", "ChecksumMismatch"}

\* C24 as claimed: encoding fails with MessageTooLarge exactly when the
\* serialized body is longer than max_message_size, and neither the bytes
\* of encode nor the framed bytes of encode_with_length are longer than
\* max_message_size.
C24_OutputWithinLimit ==
    /\ codec_pc = "failed" <=>
          (codec_pc # "built" /\ Len(message.payload) + 48 > max_message_size)
    /\ codec_pc = "failed" => codec_ret.res.kind = "MessageTooLarge"
    /\ codec_pc \in {"encoded", "framed"} => Len(data) <= max_message_size

\* C24 amended: encoding fails with MessageTooLarge exactly when the
\* serialized body is longer than max_message_size; the bytes of encode are
\* at most max_message_size long, and the framed bytes are the body and four
\* bytes of length in front of it, at most max_message_size + 4 long.
C24_BodyWithinLimit ==
    /\ codec_pc = "failed" <=>
          (codec_pc # "built" /\ Len(message.payload) + 48 > max_message_size)
    /\ codec_pc = "failed" => codec_ret.res.kind = "MessageTooLarge"
    /\ codec_pc = "encoded" => Len(data) <= max_message_size
    /\ codec_pc = "framed" =>
          /\ Len(data) = Len(message.payload) + 48 + 4
          /\ Len(data) <= max_message_size + 4
          /\ from_be_bytes(Slice(data, 1, 4)) = U32(Len(data) - 4)

\* a message was framed whose body fits the limit while its frame does not
C24_Witness ==
    /\ codec_pc = "framed"
    /\ Len(data) - 4 <= max_message_size
    /\ Len(data) > max_message_size

(***************************************************************************)
(* Properties of the negotiation (checked under ProtoSpec, FeatureSpec).   *)
(***************************************************************************)
\* C25: select_protocol returns the protocol of highest priority
\* (TLS > TCP > UDP) that occurs in both lists, and returns nothing exactly
\* when the lists have no protocol in common.
C25_BestCommonProtocol ==
    proto_pc = "selected" =>
        LET both == {client_protocols[i] : i \in DOMAIN client_protocols}
                    \cap {server_protocols[i] : i \in DOMAIN server_protocols}
        IN  /\ selected = << >> <=> both = {}
            /\ "TLS" \in both => selected = << "TLS" >>
            /\ ("TLS" \notin both /\ "TCP" \in both) => selected = << "TCP" >>
            /\ (both = {"UDP"}) => selected = << "UDP" >>

\* the client lists UDP, TCP, TLS in this order, the server offers TCP and
\* UDP only, and TCP was selected
C25_Witness ==
    /\ proto_pc = "selected"
    /\ client_protocols = << "UDP", "TCP", "TLS" >>
    /\ server_protocols = << "TCP", "UDP" >>
    /\ selected = << "TCP" >>

\* C26: after a successful negotiate_features the negotiated feature set is
\* exactly the intersection of the client's list and the server's list, it
\* is what the call returns and what the connection stores, and if
\* Compression is not in it the codec of the connection has compression
\* disabled, also when the configuration enabled it.
C26_NegotiatedIntersection ==
    (feat_ret.called /\ feat_ret.res = OkRes) =>
        /\ {negotiated_features[i] : i \in DOMAIN negotiated_features}
             = {client_features[i] : i \in DOMAIN client_features}
               \cap {server_features[i] : i \in DOMAIN server_features}
        /\ feat_ret.features = negotiated_features
        /\ (\A i \in DOMAIN negotiated_features :
                negotiated_features[i] # "Compression")
             => ~compression_enabled

\* compression was configured, the client offered it, the server did not,
\* and another feature was agreed on
C26_Witness ==
    /\ feat_ret.called /\ feat_ret.res = OkRes
    /\ config_compression_enabled
    /\ client_features = << "Compression", "Heartbeat" >>
    /\ server_features = << "Heartbeat" >>
    /\ negotiated_features = << "Heartbeat" >>
    /\ ~compression_enabled

(***************************************************************************)
(* Properties of the node health map (checked under HealthSpec).           *)
(***************************************************************************)
\* the number of unhealthy observations at the end of obs, after the last
\* healthy one
RECURSIVE C30_FailuresSinceHealthy(_)
C30_FailuresSinceHealthy(obs) ==
    IF obs = << >> \/ obs[Len(obs)] THEN 0
    ELSE 1 + C30_FailuresSinceHealthy(SubSeq(obs, 1, Len(obs) - 1))

\* C30: for every node, after any sequence of mark_node_healthy and
\* mark_node_unhealthy calls, a first call for an untracked node included,
\* consecutive_failures is the number of unhealthy observations since the
\* most recent healthy one and is_healthy is the outcome of the last
\* observation.
C30_FailuresCounted ==
    \A n \in Nodes :
        observations[n] # << >> =>
            /\ n \in DOMAIN node_health
            /\ node_health[n].consecutive_failures
                 = C30_FailuresSinceHealthy(observations[n])
            /\ node_health[n].is_healthy
                 = observations[n][Len(observations[n])]

\* node 2 was first seen unhealthy, then healthy, then unhealthy twice,
\* while node 1 has not been reported at all
C30_Witness ==
    /\ observations[2] = << FALSE, TRUE, FALSE, FALSE >>
    /\ node_health[2].consecutive_failures = 2
    /\ 1 \notin DOMAIN node_health

(***************************************************************************)
(* Properties of Client::disconnect (checked under DisconnectSpec).        *)
(***************************************************************************)
\* C27: Client::disconnect always completes the teardown: when it has
\* returned, ConnectionManager::disconnect has run and the call reports
\* success, also when logout failed or no connection could be acquired.
C27_TeardownCompletes ==
    disc_pc = "done" => (disc_closed /\ disc_ret = "Ok")

(***************************************************************************)
(* Properties of the waits on the network (checked under WaitSpec).        *)
(***************************************************************************)
\* C28: every operation that waits on the network returns, with a result
\* or with a TimeoutError or ConnectionTimeout, also when the server never
\* answers and never reads: it does not wait forever.
C28_EveryWaitReturns == <>(wait_pc = "done")

(***************************************************************************)
(* Properties of begin_transaction (checked under BeginSpec).              *)
(***************************************************************************)
\* C29: any two transactions created by begin_transaction on one client
\* have different transaction identifiers, also when they were begun
\* concurrently or within the same millisecond.
C29_DistinctIds ==
    \A i, j \in DOMAIN transactions :
        i # j => transactions[i].transaction_id # transactions[j].transaction_id

(***************************************************************************)
(* Properties of the pool's accounting and ownership (checked under        *)
(* PoolSpec).                                                              *)
(***************************************************************************)
\* the callers that hold a connection they have not given back
CheckedOut == {c \in Callers : pc[c] = "holding"}

\* C31: in every reachable state total_connections is the number of
\* connections in the available set plus the number checked out and not
\* yet given back; a purged or discarded connection is no longer counted.
C31_CountsLiveConnections ==
    total_connections = Len(available) + Cardinality(CheckedOut)

\* C32: return_connection of a connection over its lifetime or idle budget
\* takes exactly one off total_connections and leaves the available set
\* alone; return_connection of any other connection appends it to the
\* available set and leaves total_connections alone.
C32_ReturnEffect ==
    [][\A c \in Callers :
          (pc[c] = "holding" /\ pc'[c] = "idle") =>
              IF (now - held[c].created_at) > max_lifetime_ms
                 \/ (now - held[c].last_used) > idle_timeout_ms
              THEN /\ total_connections' = total_connections - 1
                   /\ available' = available
              ELSE /\ available' = Append(available, held[c])
                   /\ total_connections' = total_connections]_vars

\* an over-age connection has been returned and discarded, and a
\* connection that was within its budgets is back in the available set
C32_Witness ==
    /\ available # << >>
    /\ dialed >= 2
    /\ total_connections < dialed
    /\ \A c \in Callers : pc[c] = "idle"

\* C36: every live connection has exactly one owner: no connection is
\* twice in the available set, none is both available and held by a
\* caller, and no two callers hold the same connection.
C36_OneOwner ==
    /\ \A i, j \in 1..Len(available) :
           i # j => available[i].id # available[j].id
    /\ \A c \in CheckedOut : \A i \in 1..Len(available) :
           available[i].id # held[c].id
    /\ \A c, d \in CheckedOut : c # d => held[c].id # held[d].id

\* a caller holds a connection that get_connection took out of the
\* available set while another connection is owned elsewhere
C36_Witness ==
    \E c \in CheckedOut :
        /\ held[c].last_used > held[c].created_at
        /\ \/ available # << >>
           \/ \E d \in CheckedOut : d # c

(***************************************************************************)
(* Properties of the counter across ConnectionManager::disconnect          *)
(* (checked under DisconnectSpec).                                         *)
(***************************************************************************)
\* C38: total_connections never wraps below zero and is never smaller
\* than the number of connections in the available set, also when
\* disconnect has reset it to zero while connections were checked out and
\* those connections are returned afterwards.
C38_CounterSound ==
    /\ total_connections >= 0
    /\ total_connections >= Len(available)

(***************************************************************************)
(* Properties of the DataClient's use of the pool (checked under           *)
(* DataSpec).                                                              *)
(***************************************************************************)
\* C39: every connection that execute_with_params, query_with_params,
\* prepare or begin_transaction took from the pool is, when the operation
\* returns without handing it to a Transaction, back in the available set
\* or taken off total_connections, whatever the exit path.
C39_GivenBackOnExit ==
    [][\A c \in Callers :
          (data_op[c] \in DataOps /\ pc[c] = "holding" /\ data_op'[c] = "none") =>
              \/ \E i \in 1..Len(available') : available'[i] = held[c]
              \/ total_connections' = total_connections - 1]_vars

(***************************************************************************)
(* Properties of read_message on its reader (checked under ReaderSpec).    *)
(***************************************************************************)
\* C33: a read_message that read a length prefix above max_message_size
\* returns MessageTooLarge, has taken the four bytes of the prefix and no
\* byte after them from the reader, and has allocated no body buffer.
C33_RejectsBeforeBody ==
    [][(/\ codec_pc = "reader" /\ codec_pc' = "read"
        /\ Len(data) >= 4
        /\ \/ AsNat(from_be_bytes(Slice(data, 1, 4))) < 0
           \/ AsNat(from_be_bytes(Slice(data, 1, 4))) > max_message_size)
       => /\ codec_ret'.res.kind = "MessageTooLarge"
          /\ data' = Slice(data, 5, Len(data))
          /\ read_allocated' = 0]_vars

\* a read_message has refused a frame and the body is still in the reader
C33_Witness ==
    /\ codec_pc = "read"
    /\ codec_ret.res.kind = "MessageTooLarge"
    /\ Len(data) > 40

(***************************************************************************)
(* Properties of the sequence numbers (checked under SeqSpec).             *)
(***************************************************************************)
\* C34: on any one connection every message the client writes carries a
\* sequence number strictly greater than that of every message it wrote
\* earlier on that connection, whatever the send path.
C34_StrictlyIncreasing ==
    /\ \A i, j \in 1..Len(seq_sent) : i < j => seq_sent[i].seq < seq_sent[j].seq
    /\ \A i, j \in 1..Len(probe_sent) : i < j => probe_sent[i].seq < probe_sent[j].seq

(***************************************************************************)
(* Properties of health_check_all_nodes (checked under ProbeSpec).         *)
(***************************************************************************)
\* C35: the accounting of a node carries over the runs of
\* health_check_all_nodes: after k runs in a row in which the node could
\* not be reached or pinged its consecutive_failures is k plus the
\* failures recorded before them, and after a run in which it answered
\* consecutive_failures is 0.
C35_RunsAccumulate ==
    \A n \in DOMAIN node_health :
        node_health[n].consecutive_failures
            = C30_FailuresSinceHealthy(observations[n])

(***************************************************************************)
(* Properties of the replies send_request returns (checked under           *)
(* ExchangeSpec).                                                          *)
(***************************************************************************)
\* C37: the message a send_request call returns is the server's reply to
\* the request that call wrote, also when an earlier call on the
\* connection timed out and its reply arrived late.
C37_OwnReply ==
    exch_ret.res = "Ok" => exch_ret.reply_to = exch_ret.request

(***************************************************************************)
(* Properties of logout against concurrent calls (checked under            *)
(* LogoutSpec).                                                            *)
(***************************************************************************)
\* C40: a logout that returned Ok is not undone by a refresh_token or
\* get_valid_token call that started before it completed: when such a
\* call was the last to return, every call has finished and no
\* authenticate, get_valid_token or refresh_token call has started since
\* the logout returned, the token cache is empty.
C40_LogoutStands ==
    (/\ logout_stands
     /\ \A c \in Tasks : auth_pc[c] = AuthIdle
     /\ auth_ret.op \in {"refresh_token", "get_valid_token"})
    => token = << >>

====
